---- MODULE Spec2Model ----
(***************************************************************************)
(* ESP32-OTAManager: the mutex-guarded update coordinator                  *)
(* (src/src/OTAManager.cpp) together with the lifecycle handlers of the    *)
(* example application (examples/.../tasks/OTATask.cpp).                   *)
(*                                                                         *)
(* Spec: FreeRTOS tasks calling the public API in any interleaving, as the  *)
(* thread-safety and stress tests do.  ExampleSpec: the example            *)
(* application, whose main task runs OTATask::init and OTATask::start      *)
(* while no OTA task exists and whose OTA task then calls handleUpdates.   *)
(* Every operation is split at                                             *)
(* the points where it takes or releases the mutex, so that a step is one  *)
(* critical section or one unlocked access.  ArduinoOTA (the transfer      *)
(* library) is an external collaborator: the model keeps what the          *)
(* coordinator passes to it (hostname, password, port, the four callback   *)
(* slots) and lets its service routine fire lifecycle events in protocol   *)
(* order (start, progress*, end | error; authentication and begin errors   *)
(* precede the start).                                                     *)
(***************************************************************************)
EXTENDS Integers, FiniteSets, Sequences

\* ------------------------------------------------------------------ bounds
NumTasks == 2
MaxMutex == 2
\* API calls made in one run, over all tasks.
MaxCalls == 3

Tasks == 1..NumTasks

\* The example application: the task that runs setup() and loop(), and the
\* task OTATask::start creates.
MainTask == 1
OtaTask == 2

\* ------------------------------------------------------------- input values
\* A C string argument is the null pointer, the empty string, or a text.
NullStr == "<null>"
\* ProjectConfig.h: what OTATask::init passes to initialize.
DEVICE_HOSTNAME == "esp32-ethernet-device"
OTA_PASSWORD == "update-password"
OTA_PORT == 3232
\* OTAManagerConfig.h: the default hostname of initialize.
OTA_HOSTNAME == "esp32-ota"
\* The port ArduinoOTA listens on unless setPort is called.
DefaultPort == 3232
\* NetworkCheckCallback: 0 is nullptr (OTA_CALLBACK_NONE), 1 a user predicate
\* (OTATask::isNetworkConnected, testNetworkCheck, a test lambda).
isNetworkConnected == 1

\* The argument tuples initialize is called with: the first two cycles of
\* test_rapid_init_deinit_cycles, the example's call, the declared default
\* arguments, and the three invalid calls of the tests (null hostname, empty
\* hostname, port 0).
InitializeCalls ==
    { [hostname |-> "device-0", password |-> NullStr, port |-> 3232,
       networkCheckCb |-> 1],
      [hostname |-> "device-1", password |-> "password", port |-> 3233,
       networkCheckCb |-> 0],
      [hostname |-> DEVICE_HOSTNAME, password |-> OTA_PASSWORD, port |-> OTA_PORT,
       networkCheckCb |-> isNetworkConnected],
      [hostname |-> OTA_HOSTNAME, password |-> "", port |-> DefaultPort,
       networkCheckCb |-> 0],
      [hostname |-> NullStr, password |-> "pass", port |-> 3232,
       networkCheckCb |-> 1],
      [hostname |-> "", password |-> "pass", port |-> 3232,
       networkCheckCb |-> 1],
      [hostname |-> "test", password |-> "pass", port |-> 0,
       networkCheckCb |-> 0] }

\* The four lifecycle events of the transfer library.
Kinds == {"start", "end", "progress", "error"}
\* What a callback slot can hold: nothing (library default state), the
\* default hook installed by initialize, the OTATask handler of that kind,
\* or a test lambda.
NoCb == "none"
DefaultCb == "default"
TaskCb == "task"
TestCb == "test"
\* What a setter can be called with: an empty std::function or a real one.
NullCb == "null"
CallbackArgs == {NullCb, TaskCb, TestCb}

\* ota_error_t as classified by handleOTAError / OTATask::onOTAError.
ErrorsBeforeStart == {"AUTH", "BEGIN", "UNKNOWN"}
ErrorsAfterStart == {"CONNECT", "RECEIVE", "END", "UNKNOWN"}

VARIABLES
    initialized,            \* OTAManager::initialized
    networkCheckCallback,   \* OTAManager::networkCheckCallback
    mutex,                  \* OTAManager::mutex: 0 = nullptr, else a mutex id
    nMutex,                 \* number of mutex objects created so far
    otaConfig,              \* what ArduinoOTA was configured with
    callbacks,              \* ArduinoOTA's four callback slots
    otaState,               \* ArduinoOTA's session: "idle" | "updating"
    otaUpdateInProgress,    \* OTATask::otaUpdateInProgress
    restarted,              \* ESP.restart() was called
    ending,                 \* per task: its end callback has run, the restart is due
    suspended,              \* SensorTask::suspended
    pc,                     \* per task: position inside the current call
    held,                   \* per task: id of the mutex it holds, 0 = none
    ready,                  \* per task: result of isNetworkReady() in this call
    serviced,               \* per task: ArduinoOTA.handle() calls in this call
    libSeen,                \* per task: session state handle() works from
    sessions,               \* update sessions started and not finished (0..2)
    errorAt,                \* number of the call in which onOTAError last ran, 0 = never
    taskHandle,             \* OTATask::taskHandle is set: the OTA task exists
    calls,                  \* calls begun so far
    script,                 \* per task: stage of OTATask::init, 0 = not in it
    last,                   \* the last completed body step or event
    wtask,                  \* the supervised task loop being followed, "none" = none
    wpc,                    \* its position in the loop body
    seg,                    \* i of for (int i = 0; i < segments; i++)
    gap,                    \* ms of sleeps and bounded waits since its last feed
    sleepGap,               \* the sleeps among them
    wdtRegistered,          \* wdtRegistered of its file
    isSuspended,            \* isSuspended of SensorTask::taskFunction
    handler,                \* the progress handler being followed, "none" = none
    progress,               \* bytes received in the session: the handler's argument
    lastPercent,            \* lastPercent of OTATask::onOTAProgress
    lastPrintedStep,        \* lastPrintedStep of OTAManager::handleOTAProgress
    loggedStep,             \* step of the last log line of this session, -1 = none
    stepLines,              \* log lines emitted for that step so far
    net,                    \* the readiness check being followed: its build, inputs, answer
    nested,                 \* per task: it is in an initialize called by a callback
    outer,                  \* per task: the mutex its interrupted handleUpdates holds
    lpc,                    \* per task of the example: position in its sequence of lock operations
    owner,                  \* per lock of the example: the task that holds it, "none" = free
    round,                  \* per task of the example: what its current loop round does
    started,                \* static bool started of OTATask::start
    otaTasks,               \* OTA tasks created by xTaskCreate so far
    startResult,            \* the return the last OTATask::start call left by, "none" = no call yet
    mpc,                    \* where the main task is: "setup", "setup_done", "loop"; "none" = not followed
    ethernetConnected,      \* static bool ethernetConnected of main.cpp
    linkUp,                 \* what EthernetManager::isConnected() returns
    notified,               \* the link state the connected/disconnected callbacks have reported
    waited,                 \* how waitForConnection ended in setup: "connected", "timeout"; "none" = not yet
    clock,                  \* ms of real time since the status logs began to be followed
    epoch,                  \* millis() at that moment, as 32 bits
    lastLog,                \* static unsigned long lastLog of handleUpdates
    lastErrorLog,           \* static unsigned long lastErrorLog of handleUpdates
    tpc,                    \* per task: where it is in the status logging of handleUpdates
    logAt,                  \* per kind of status log: the real time of its last line, -1 = none
    nLogs                   \* per kind of status log: the lines written so far

vars == <<initialized, networkCheckCallback, mutex, nMutex, otaConfig, callbacks,
          otaState, otaUpdateInProgress, restarted, ending, suspended, pc, held, ready, serviced,
          libSeen, sessions, errorAt, taskHandle, calls, script, last,
          wtask, wpc, seg, gap, sleepGap, wdtRegistered, isSuspended,
          handler, progress, lastPercent, lastPrintedStep, loggedStep, stepLines, net,
          nested, outer, lpc, owner, round,
          started, otaTasks, startResult, mpc, ethernetConnected, linkUp, notified, waited,
          clock, epoch, lastLog, lastErrorLog, tpc, logAt, nLogs>>

\* The coordinator, the library and the tasks that call them.
coreVars == <<initialized, networkCheckCallback, mutex, nMutex, otaConfig, callbacks,
              otaState, otaUpdateInProgress, restarted, ending, suspended, pc, held,
              ready, serviced, libSeen, sessions, errorAt, taskHandle, calls, script, last,
              nested, outer>>
\* One supervised task loop followed feed by feed.
loopVars == <<wtask, wpc, seg, gap, sleepGap, wdtRegistered, isSuspended>>
\* One progress handler followed call by call.
progressVars == <<handler, progress, lastPercent, lastPrintedStep, loggedStep, stepLines>>
\* The locks of the example application followed take by take.
lockVars == <<lpc, owner, round>>
\* What the other parts of the model follow beside the calls of the API.
\* OTATask::start and the tasks it has created.
startVars == <<started, otaTasks, startResult>>
\* setup(), loop() and the callbacks of the network of main.cpp.
mainVars == <<mpc, ethernetConnected, linkUp, notified, waited>>
\* The throttled status logs of handleUpdates.
throttleVars == <<clock, epoch, lastLog, lastErrorLog, tpc, logAt, nLogs>>
sysVars == <<lockVars, startVars, mainVars, throttleVars>>
appVars == <<loopVars, progressVars, net, sysVars>>
\* A call made from inside a lifecycle callback.
cbVars == <<nested, outer>>

coordVars == <<initialized, networkCheckCallback, otaConfig, callbacks>>
libVars == <<otaState, otaUpdateInProgress, restarted, ending, suspended, sessions, errorAt>>
callVars == <<ready, serviced, libSeen>>
budgetVars == <<calls, script, taskHandle>>

\* ------------------------------------------------------------------ helpers
\* if (!hostname || strlen(hostname) == 0)
HostnameInvalid(hostname) == hostname = NullStr \/ hostname = ""

\* if (password && strlen(password) > 0)
PasswordGiven(password) == password # NullStr /\ password # ""

\* Variant: the validation without the port check.
ParamsValidNoPortCheck(hostname, port) == ~HostnameInvalid(hostname)

\* The two validation returns of initialize.
ParamsValid(hostname, port) == ~HostnameInvalid(hostname) /\ port # 0

\* Variant: a rejected initialize marks the subsystem uninitialized.
RejectedInitializedCleared(was) == FALSE

\* What a validation return leaves in initialized: the function returns
\* before it has written anything.
RejectedInitialized(was) == was

\* Variant: initialize installs its hooks only in the slots that are empty.
DefaultHooksKeepCustom(slots) ==
    [k \in Kinds |-> IF slots[k] = NoCb THEN DefaultCb ELSE slots[k]]

\* ArduinoOTA.onStart(...).onEnd(...).onError(handleOTAError)
\* .onProgress(handleOTAProgress): the four slots after a valid initialize.
DefaultHooks(slots) == [k \in Kinds |-> DefaultCb]

\* ArduinoOTA.setPort is called only for a port other than 3232.
PortIsSet(port) == port # DefaultPort

\* MutexGuard lock(mutex): blocks until the mutex the handle names now is
\* free; a null handle guards nothing.
MutexFree(m) == \A u \in Tasks : held[u] # m /\ outer[u] # m

CanLock == mutex = 0 \/ MutexFree(mutex)

Lock(t) == held' = [held EXCEPT ![t] = mutex]

\* Variant: a way out of a critical section that keeps the mutex.
UnlockSkipped(t) == held' = held

\* ~MutexGuard(): the guard gives back the mutex it took; what the task
\* holds then is what the call it interrupted holds, if any.
Unlock(t) == held' = [held EXCEPT ![t] = outer[t]]

Goto(t, label) == pc' = [pc EXCEPT ![t] = label]

Running == ~restarted

\* A task at rest begins its next call.
BeginCall(t) ==
    /\ Running /\ pc[t] = "idle" /\ script[t] = 0
    /\ calls < MaxCalls
    /\ calls' = calls + 1

\* if (OTATask::init() && OTATask::start()): init is initialize (stage 1),
\* isInitialized (2) and, when that returned true, the four setters (3..6);
\* start follows (7) when init returned true.  The stage after a call made
\* by init has returned; 0 when init returned false.
StageAfter(stage, isInit) ==
    IF stage = 0 THEN 0
    ELSE IF stage = 1 THEN 2
    ELSE IF stage = 2 THEN (IF isInit THEN 3 ELSE 0)
    ELSE stage + 1

StageKind == [s \in 3..6 |-> IF s = 3 THEN "start" ELSE IF s = 4 THEN "end"
                             ELSE IF s = 5 THEN "progress" ELSE "error"]

\* The call of task t returns: to the task, or to the callback that made it
\* and from there into the service routine.
Return(t, isInit) ==
    /\ pc' = [pc EXCEPT ![t] = IF nested[t] THEN "handle" ELSE "idle"]
    /\ script' = [script EXCEPT ![t] = IF nested[t] THEN script[t]
                                       ELSE StageAfter(script[t], isInit)]
    /\ nested' = [nested EXCEPT ![t] = FALSE]
    /\ outer' = [outer EXCEPT ![t] = 0]

\* ---------------------------------------------------------------- initially
\* The static initializers of OTAManager.cpp, OTATask.cpp and SensorTask.cpp.
CoreInit ==
    /\ initialized = FALSE
    /\ networkCheckCallback = 0
    /\ mutex = 0
    /\ nMutex = 0
    /\ otaConfig = [hostname |-> NullStr, password |-> NullStr, port |-> DefaultPort]
    /\ callbacks = [k \in Kinds |-> NoCb]
    /\ otaState = "idle"
    /\ otaUpdateInProgress = FALSE
    /\ restarted = FALSE
    /\ ending = [t \in Tasks |-> FALSE]
    /\ suspended = FALSE
    /\ pc = [t \in Tasks |-> "idle"]
    /\ held = [t \in Tasks |-> 0]
    /\ ready = [t \in Tasks |-> FALSE]
    /\ serviced = [t \in Tasks |-> 0]
    /\ libSeen = [t \in Tasks |-> "idle"]
    /\ sessions = 0
    /\ errorAt = 0
    /\ taskHandle = FALSE
    /\ calls = 0
    /\ script = [t \in Tasks |-> 0]
    /\ last = [op |-> "none"]
    /\ nested = [t \in Tasks |-> FALSE]
    /\ outer = [t \in Tasks |-> 0]

\* No task loop is followed.
LoopIdle ==
    /\ wtask = "none" /\ wpc = "none" /\ seg = 0 /\ gap = 0 /\ sleepGap = 0
    /\ wdtRegistered = FALSE /\ isSuspended = FALSE

\* No progress handler is followed; static int lastPercent = 0; static int
\* lastPrintedStep = -5;
ProgressIdle ==
    /\ handler = "none" /\ progress = 0
    /\ lastPercent = 0 /\ lastPrintedStep = -5
    /\ loggedStep = -1 /\ stepLines = 0

\* The preprocessor conditions of the default probe: #if defined(ETH) and
\* #if CONFIG_WIFI_ENABLED == 1 (ESP32 being defined).
BuildConfigs == [ethDefined : BOOLEAN, wifiEnabled : BOOLEAN]

\* What the probes of a readiness check can find: ETH.linkSpeed() > 0,
\* ETH.localIP() != 0.0.0.0, WiFi.status() == WL_CONNECTED,
\* WiFi.localIP() != 0.0.0.0.
LinkStates == [ethLink : BOOLEAN, ethAddr : BOOLEAN,
               wifiConnected : BOOLEAN, wifiAddr : BOOLEAN]

NoLinks == [ethLink |-> FALSE, ethAddr |-> FALSE, wifiConnected |-> FALSE, wifiAddr |-> FALSE]

\* No readiness check has been followed yet in a firmware built as build.
\* static bool warnedOnce = false;   and no warning logged.
NoCheck(build) ==
    [build |-> build, checked |-> FALSE, callback |-> 0, predicate |-> FALSE,
     links |-> NoLinks, answer |-> FALSE,
     warnedOnce |-> FALSE, warnedBefore |-> FALSE, warnings |-> 0]

\* No readiness check is followed.
ReadinessIdle == net = NoCheck([ethDefined |-> FALSE, wifiEnabled |-> FALSE])

\* No lock of the example application is followed.
LocksIdle ==
    /\ lpc = [t \in {"none"} |-> 0]
    /\ owner = [l \in {"none"} |-> "none"]
    /\ round = [t \in {"none"} |-> "none"]

\* static bool started = false;   and no task created.
StartIdle == started = FALSE /\ otaTasks = 0 /\ startResult = "none"

\* setup() and loop() are not followed; static bool ethernetConnected = false;
MainIdle ==
    /\ mpc = "none" /\ ethernetConnected = FALSE
    /\ linkUp = FALSE /\ notified = FALSE /\ waited = "none"

\* The two kinds of status log of handleUpdates.
LogKinds == {"waiting", "error"}

\* An unsigned long of the ESP32 (32 bits) as its two 16-bit halves.
Half == 65536
U32(hi, lo) == <<hi, lo>>
Zero32 == U32(0, 0)

\* The status logs are not followed; static unsigned long lastLog = 0;
\* static unsigned long lastErrorLog = 0;
ThrottleIdle ==
    /\ clock = 0 /\ epoch = Zero32 /\ lastLog = Zero32 /\ lastErrorLog = Zero32
    /\ tpc = [t \in Tasks |-> "none"]
    /\ logAt = [k \in LogKinds |-> -1] /\ nLogs = [k \in LogKinds |-> 0]

SysIdle == LocksIdle /\ StartIdle /\ MainIdle /\ ThrottleIdle

Init == CoreInit /\ LoopIdle /\ ProgressIdle /\ ReadinessIdle /\ SysIdle

\* --------------------------------------------------------------- initialize
\* Where initialize starts: if (!mutex) ...   the unlocked test of the handle.
InitializeEntry == IF mutex = 0 THEN "init_create" ELSE "init_lock"

initializeEnter(t) ==
    /\ BeginCall(t)
    /\ Goto(t, InitializeEntry)
    /\ UNCHANGED <<coordVars, libVars, callVars, mutex, nMutex, appVars, cbVars, held, script, taskHandle, last>>

\* mutex = xSemaphoreCreateMutex(); if (!mutex) return;
\* The result is assigned to the handle whether or not the creation succeeded.
initializeCreateMutex(t, created) ==
    /\ Running /\ pc[t] = "init_create"
    /\ IF created /\ nMutex < MaxMutex
          THEN /\ nMutex' = nMutex + 1
               /\ mutex' = nMutex + 1
               /\ Goto(t, "init_lock")
               /\ UNCHANGED <<script, last, cbVars>>
          ELSE /\ mutex' = 0
               /\ Return(t, initialized)
               /\ last' = [op |-> "createMutex", ok |-> FALSE]
               /\ UNCHANGED nMutex
    /\ UNCHANGED <<coordVars, libVars, callVars, held, calls, taskHandle, appVars>>

\* MutexGuard lock(mutex);
initializeLock(t) ==
    /\ Running /\ pc[t] = "init_lock"
    /\ CanLock
    /\ Lock(t)
    /\ Goto(t, "init_body")
    /\ UNCHANGED <<coordVars, libVars, callVars, budgetVars, mutex, nMutex, appVars, cbVars, last>>

\* The critical section of initialize: validation, networkCheckCallback, the
\* ArduinoOTA configuration, the default hooks, ArduinoOTA.begin(),
\* initialized = true, and the guard's release on every way out.
initializeBody(t, hostname, password, port, networkCheckCb) ==
    /\ Running /\ pc[t] = "init_body"
    /\ IF ~ParamsValid(hostname, port)
          THEN /\ last' = [op |-> "initialize", ok |-> FALSE, again |-> initialized,
                           hostname |-> hostname, port |-> port, slots |-> callbacks]
               /\ initialized' = RejectedInitialized(initialized)
               /\ UNCHANGED <<networkCheckCallback, otaConfig, callbacks>>
          ELSE /\ networkCheckCallback' = networkCheckCb
               /\ otaConfig' = [hostname |-> hostname,
                                password |-> IF PasswordGiven(password)
                                                THEN password
                                                ELSE otaConfig.password,
                                port     |-> IF PortIsSet(port)
                                                THEN port
                                                ELSE otaConfig.port]
               /\ callbacks' = DefaultHooks(callbacks)
               /\ initialized' = TRUE
               /\ last' = [op |-> "initialize", ok |-> TRUE, again |-> initialized,
                           hostname |-> hostname, password |-> password,
                           port |-> port, networkCheckCb |-> networkCheckCb,
                           slots |-> callbacks]
    /\ Unlock(t)
    /\ Return(t, initialized)
    /\ UNCHANGED <<libVars, callVars, mutex, nMutex, appVars, calls, taskHandle>>

\* ------------------------------------------------------------ isInitialized
isInitializedEnter(t) ==
    /\ BeginCall(t)
    /\ Goto(t, "isinit_lock")
    /\ UNCHANGED <<coordVars, libVars, callVars, mutex, nMutex, appVars, cbVars, held, script, taskHandle, last>>

\* MutexGuard lock(mutex);
isInitializedLock(t) ==
    /\ Running /\ pc[t] = "isinit_lock"
    /\ CanLock
    /\ Lock(t)
    /\ Goto(t, "isinit_body")
    /\ UNCHANGED <<coordVars, libVars, callVars, budgetVars, mutex, nMutex, appVars, cbVars, last>>

\* return initialized;
isInitialized(t) ==
    /\ Running /\ pc[t] = "isinit_body"
    /\ last' = [op |-> "isInitialized", result |-> initialized]
    /\ Unlock(t)
    /\ Return(t, initialized)
    /\ UNCHANGED <<coordVars, libVars, callVars, mutex, nMutex, appVars, calls, taskHandle>>

\* ------------------------------------------------------------------ setters
SetterNames == [start |-> "setStartCallback", end |-> "setEndCallback",
                progress |-> "setProgressCallback", error |-> "setErrorCallback"]

\* The setters are declared void: the caller gets no value back.
SetterResult == "void"

\* OTAM_LOG_W("Cannot set callback - OTA not initialized")
NotInitializedWarning == "W: Cannot set callback - OTA not initialized"

setCallbackEnter(t) ==
    /\ BeginCall(t)
    /\ Goto(t, "set_lock")
    /\ UNCHANGED <<coordVars, libVars, callVars, mutex, nMutex, appVars, cbVars, held, script, taskHandle, last>>

\* MutexGuard lock(mutex);
setCallbackLock(t) ==
    /\ Running /\ pc[t] = "set_lock"
    /\ CanLock
    /\ Lock(t)
    /\ Goto(t, "set_body")
    /\ UNCHANGED <<coordVars, libVars, callVars, budgetVars, mutex, nMutex, appVars, cbVars, last>>

\* Variant: setStartCallback and setEndCallback register with each other's hook.
SetterSlotSwapped(kind) ==
    IF kind = "start" THEN "end" ELSE IF kind = "end" THEN "start" ELSE kind

\* The slot a setter writes: setStartCallback calls ArduinoOTA.onStart, ...
SetterSlot(kind) == kind

\* Variant: the setters without the initialized check.
SetterAlwaysAllowed(isInit) == TRUE

\* if (!initialized) { warn; return; }
SetterAllowed(isInit) == isInit

\* Variant: the setters without the null check.
CallbackAlwaysGiven(cb) == TRUE

\* if (cb) { ... }
CallbackGiven(cb) == cb # NullCb

\* The body the four setters share:
\*   if (!initialized) { warn; return; }   if (cb) { ArduinoOTA.onX(cb); }
setCallback(t, kind, cb) ==
    /\ Running /\ pc[t] = "set_body"
    /\ callbacks' = IF SetterAllowed(initialized) /\ CallbackGiven(cb)
                       THEN [callbacks EXCEPT ![SetterSlot(kind)] = cb]
                       ELSE callbacks
    /\ last' = [op |-> SetterNames[kind], cb |-> cb, result |-> SetterResult,
                log |-> IF ~SetterAllowed(initialized) THEN NotInitializedWarning
                        ELSE IF CallbackGiven(cb) THEN "D: callback set"
                        ELSE "none"]
    /\ Unlock(t)
    /\ Return(t, initialized)
    /\ UNCHANGED <<initialized, networkCheckCallback, otaConfig, libVars, callVars,
                   mutex, nMutex, appVars, calls, taskHandle>>

setStartCallback(t, cb) == setCallback(t, "start", cb)

setEndCallback(t, cb) == setCallback(t, "end", cb)

setProgressCallback(t, cb) == setCallback(t, "progress", cb)

setErrorCallback(t, cb) == setCallback(t, "error", cb)

\* --------------------------------------------- OTATask::init, OTATask::start
\* The main task calls OTATask::init, in setup() or on a reconnect in loop()
\* that finds OTATask::taskHandle == nullptr: init enters
\* OTAManager::initialize(DEVICE_HOSTNAME, OTA_PASSWORD, OTA_PORT,
\* isNetworkConnected).
OTATaskInitEnter(t) ==
    /\ BeginCall(t)
    /\ ~taskHandle
    /\ script' = [script EXCEPT ![t] = 1]
    /\ Goto(t, InitializeEntry)
    /\ UNCHANGED <<coordVars, libVars, callVars, mutex, nMutex, cbVars, held, taskHandle, last>>

OTATaskInit(t) == OTATaskInitEnter(t) /\ UNCHANGED appVars

\* The next call of OTATask::init is entered: isInitialized, then
\* setStartCallback(onOTAStart), setEndCallback(onOTAEnd),
\* setProgressCallback(onOTAProgress), setErrorCallback(onOTAError).
OTATaskInitNext(t) ==
    /\ Running /\ pc[t] = "idle" /\ script[t] \in 2..6
    /\ Goto(t, IF script[t] = 2 THEN "isinit_lock" ELSE "set_lock")
    /\ UNCHANGED <<coordVars, libVars, callVars, budgetVars, mutex, nMutex, appVars, cbVars, held, last>>

\* OTATask::start after init returned true: xTaskCreate sets taskHandle when
\* it succeeds, and the OTA task runs from then on.
\* Variant: start without its started flag.
AlreadyStartedIgnored(flag) == FALSE

\* if (started) { LOG_WARN("OTA task already started"); return true; }
AlreadyStarted(flag) == flag

\* The value OTATask::start returns by each of its three return statements.
StartReturns == [r \in {"already started", "started", "failed"} |-> r # "failed"]

\* OTATask::start(): the early return when started is set; else xTaskCreate,
\* which sets taskHandle and lets start set started when it succeeds
\* (created), and leaves both alone and makes start return false when not.
start(created) ==
    /\ started' = IF AlreadyStarted(started) THEN started ELSE created
    /\ otaTasks' = IF ~AlreadyStarted(started) /\ created THEN otaTasks + 1 ELSE otaTasks
    /\ taskHandle' = IF ~AlreadyStarted(started) /\ created THEN TRUE ELSE taskHandle
    /\ startResult' = IF AlreadyStarted(started) THEN "already started"
                      ELSE IF created THEN "started" ELSE "failed"

OTATaskStart(t, created) ==
    /\ Running /\ pc[t] = "idle" /\ script[t] = 7
    /\ start(created)
    /\ script' = [script EXCEPT ![t] = 0]
    /\ UNCHANGED <<coordVars, libVars, callVars, calls, mutex, nMutex, loopVars, progressVars,
                   net, lockVars, mainVars, throttleVars, cbVars, pc, held, last>>

\* ------------------------------------------------------------ handleUpdates
\* Variant: handleUpdates without the quick check.
QuickCheckSkipped(isInit) == TRUE

\* if (!initialized) return;   the quick check without the lock: whether the
\* call goes on.
QuickCheck(isInit) == isInit

handleUpdatesEnter(t) ==
    /\ BeginCall(t)
    /\ IF QuickCheck(initialized)
          THEN /\ Goto(t, "net_lock")
               /\ UNCHANGED last
          ELSE /\ last' = [op |-> "handleUpdates", entered |-> FALSE,
                           ready |-> FALSE, serviced |-> 0]
               /\ UNCHANGED pc
    /\ UNCHANGED <<coordVars, libVars, callVars, mutex, nMutex, appVars, cbVars, held, script, taskHandle>>

\* One iteration of OTATask::taskFunction's loop: OTAManager::handleUpdates().
taskFunction(t) ==
    /\ taskHandle
    /\ handleUpdatesEnter(t)

\* Variant: handleUpdates services the library whatever the readiness check says.
NetworkGateOpen(answer) == TRUE

\* if (isNetworkReady()) { ... } else { ... }
NetworkGate(answer) == answer

\* isNetworkReady(): MutexGuard lock(mutex);
isNetworkReadyLock(t) ==
    /\ Running /\ pc[t] = "net_lock"
    /\ CanLock
    /\ Lock(t)
    /\ Goto(t, "net_body")
    /\ UNCHANGED <<coordVars, libVars, callVars, budgetVars, mutex, nMutex, appVars, cbVars, last>>

\* The default probe of isNetworkReady(): the wired check where the build has
\* it, then the wireless check where the build has it, then return false.
DefaultProbe(build, links) ==
    \/ build.ethDefined /\ links.ethLink /\ links.ethAddr
    \/ build.wifiEnabled /\ links.wifiConnected /\ links.wifiAddr

\* Variant: the predicate's answer combined with the default probe.
NetworkReadyCombined(cb, predicate, build, links) ==
    IF cb # 0 THEN predicate /\ DefaultProbe(build, links) ELSE DefaultProbe(build, links)

\* The value isNetworkReady() returns: if (networkCheckCallback) { return
\* networkCheckCallback(); } and the default probe otherwise.
NetworkReady(cb, predicate, build, links) ==
    IF cb # 0 THEN predicate ELSE DefaultProbe(build, links)

\* isNetworkReady() returns answer to handleUpdates and the guard releases
\* the mutex.  On false handleUpdates logs (throttled) and returns.
isNetworkReadyReturns(t, answer) ==
    /\ Running /\ pc[t] = "net_body"
    /\ Unlock(t)
    /\ IF NetworkGate(answer)
          THEN /\ ready' = [ready EXCEPT ![t] = answer]
               /\ Goto(t, "handle_lock")
               /\ UNCHANGED last
          ELSE /\ last' = [op |-> "handleUpdates", entered |-> TRUE,
                           ready |-> FALSE, serviced |-> serviced[t]]
               /\ Goto(t, "idle")
               /\ UNCHANGED ready
    /\ UNCHANGED <<coordVars, libVars, budgetVars, serviced, libSeen, mutex, nMutex>>

\* isNetworkReady() in a firmware built as build: predicate is what the user
\* predicate returns when it is called, links what the probes find.
isNetworkReady(t, build, links, predicate) ==
    /\ isNetworkReadyReturns(t, NetworkReady(networkCheckCallback, predicate, build, links))
    /\ UNCHANGED <<appVars, cbVars>>

\* The readiness check of a call.
CheckNetwork(t) ==
    \E build \in BuildConfigs, links \in LinkStates, predicate \in BOOLEAN :
        isNetworkReady(t, build, links, predicate)

\* if (isNetworkReady()) { MutexGuard lock(mutex);
handleUpdatesLock(t) ==
    /\ Running /\ pc[t] = "handle_lock"
    /\ CanLock
    /\ Lock(t)
    /\ Goto(t, "handle_check")
    /\ UNCHANGED <<coordVars, libVars, callVars, budgetVars, mutex, nMutex, appVars, cbVars, last>>

\* if (initialized) { ArduinoOTA.handle(); }   the service routine starts from
\* the session state the library has at that moment.
handleUpdatesService(t) ==
    /\ Running /\ pc[t] = "handle_check"
    /\ IF initialized
          THEN /\ serviced' = [serviced EXCEPT ![t] = serviced[t] + 1]
               /\ libSeen' = [libSeen EXCEPT ![t] = otaState]
               /\ Goto(t, "handle")
          ELSE /\ Goto(t, "handle_done")
               /\ UNCHANGED <<serviced, libSeen>>
    /\ UNCHANGED <<coordVars, libVars, budgetVars, ready, mutex, nMutex, appVars, cbVars, held, last>>

\* ArduinoOTA.handle() returns.
handleReturn(t) ==
    /\ Running /\ pc[t] = "handle" /\ ~ending[t]
    /\ Goto(t, "handle_done")
    /\ UNCHANGED <<coordVars, libVars, callVars, budgetVars, mutex, nMutex, appVars, cbVars, held, last>>

\* The status log of the ready branch, then the end of the guarded block.
handleUpdatesDone(t) ==
    /\ Running /\ pc[t] = "handle_done"
    /\ last' = [op |-> "handleUpdates", entered |-> TRUE,
                ready |-> ready[t], serviced |-> serviced[t]]
    /\ ready' = [ready EXCEPT ![t] = FALSE]
    /\ serviced' = [serviced EXCEPT ![t] = 0]
    /\ libSeen' = [libSeen EXCEPT ![t] = "idle"]
    /\ Unlock(t)
    /\ Goto(t, "idle")
    /\ UNCHANGED <<coordVars, libVars, budgetVars, mutex, nMutex, appVars, cbVars>>

\* ------------------------------------------------- lifecycle event handlers
\* OTATask::onOTAStart   { SemaphoreGuard guard(otaStatusMutex); otaUpdateInProgress = true; }
onOTAStart(flag) == TRUE

\* Variant: onOTAEnd without the write of the flag.
onOTAEndKeepsFlag(flag) == flag

\* OTATask::onOTAEnd     { ...; otaUpdateInProgress = false; }  delay; ESP.restart();
onOTAEnd(flag) == FALSE

\* Variant: onOTAError without the write of the flag.
onOTAErrorKeepsFlag(flag) == flag

\* OTATask::onOTAError   { ...; otaUpdateInProgress = false; }  SensorTask::resume();
onOTAError(flag) == FALSE

\* Variant: onOTAProgress clears the flag as well.
FlagAfterProgressClears(kind, callee, flag) ==
    IF callee # TaskCb THEN flag
    ELSE IF kind = "start" THEN onOTAStart(flag)
    ELSE FALSE

\* The value of otaUpdateInProgress after the callback in a slot has run: only
\* the OTATask handlers touch the flag; the default hooks, the test lambdas
\* and an empty slot leave it alone.
FlagAfter(kind, callee, flag) ==
    IF callee # TaskCb THEN flag
    ELSE IF kind = "start" THEN onOTAStart(flag)
    ELSE IF kind = "end" THEN onOTAEnd(flag)
    ELSE IF kind = "error" THEN onOTAError(flag)
    ELSE flag

Written(kind, callee) ==
    IF callee = TaskCb /\ kind # "progress"
       THEN (IF FlagAfter(kind, callee, FALSE) THEN "true" ELSE "false")
       ELSE "none"

\* SensorTask::suspend(): suspended = true, when dataMutex was obtained within
\* the 100 ms wait; the function goes on without the write otherwise.
suspend(taken, was) == IF taken THEN TRUE ELSE was

\* SensorTask::resume(): suspended = false, when dataMutex was obtained within
\* the 100 ms wait; the function goes on without the write otherwise.
resume(taken, was) == IF taken THEN FALSE ELSE was

\* SensorTask::suspended after the callback in a slot has run: onOTAStart
\* calls SensorTask::suspend, onOTAError calls SensorTask::resume.
SuspendedAfter(kind, callee, taken, was) ==
    IF callee = TaskCb /\ kind = "start" THEN suspend(taken, was)
    ELSE IF callee = TaskCb /\ kind = "error" THEN resume(taken, was)
    ELSE was

\* The mutexes of the application the callback in a slot takes or waits for
\* while it runs: SemaphoreGuard guard(otaStatusMutex) in OTATask::onOTAStart,
\* onOTAEnd and onOTAError, xSemaphoreTake(dataMutex, 100 ms) in
\* SensorTask::suspend and SensorTask::resume, which onOTAStart and
\* onOTAError call.
LocksTaken(kind, callee) ==
    IF callee # TaskCb THEN {}
    ELSE IF kind \in {"start", "error"} THEN {"otaStatusMutex", "dataMutex"}
    ELSE IF kind = "end" THEN {"otaStatusMutex"}
    ELSE {}

\* Whether the progress callback in a slot calls esp_task_wdt_reset():
\* OTATask::onOTAProgress does; OTAManager::handleOTAProgress and the empty
\* lambdas of the tests do not.
FeedsWatchdog(callee) == callee = TaskCb

\* Variant: an error event leaves the session where it was.
StateAfterErrorStays(kind, state) ==
    IF kind = "start" THEN "updating"
    ELSE IF kind = "end" THEN "idle"
    ELSE state

\* The session state of the library after an event.
StateAfter(kind, state) ==
    IF kind = "start" THEN "updating"
    ELSE IF kind = "progress" THEN state
    ELSE "idle"

\* Which events the service routine can fire from a session state.
CanFire(kind, error, state) ==
    \/ kind = "start" /\ state = "idle" /\ error = "-"
    \/ kind \in {"progress", "end"} /\ state = "updating" /\ error = "-"
    \/ kind = "error" /\ state = "idle" /\ error \in ErrorsBeforeStart
    \/ kind = "error" /\ state = "updating" /\ error \in ErrorsAfterStart

SessionsAfter(kind, state, n) ==
    IF kind = "start" THEN (IF n < 2 THEN n + 1 ELSE 2)
    ELSE IF kind \in {"end", "error"} /\ state = "updating" /\ n > 0 THEN n - 1
    ELSE n

\* One lifecycle event fired by ArduinoOTA.handle() while task t is inside it:
\* the callback in the slot of that kind is invoked, synchronously; taken is
\* the outcome of the callback's wait for SensorTask::dataMutex.  After the
\* end callback has done its work the restart is due: from the callback
\* itself after its delay(1000), or from the library.
otaEvent(t, kind, error, taken) ==
    /\ Running /\ pc[t] = "handle" /\ ~ending[t]
    /\ CanFire(kind, error, libSeen[t])
    /\ LET callee == callbacks[kind] IN
         /\ otaUpdateInProgress' = FlagAfter(kind, callee, otaUpdateInProgress)
         /\ suspended' = SuspendedAfter(kind, callee, taken, suspended)
         /\ errorAt' = IF kind = "error" /\ callee = TaskCb THEN calls ELSE errorAt
         /\ last' = IF kind = "progress"
                       THEN [op |-> "event", kind |-> kind, callee |-> callee,
                             found |-> otaUpdateInProgress,
                             wrote |-> Written(kind, callee),
                             fed |-> FeedsWatchdog(callee)]
                       ELSE [op |-> "event", kind |-> kind, callee |-> callee,
                             found |-> otaUpdateInProgress,
                             wrote |-> Written(kind, callee)]
    /\ otaState' = StateAfter(kind, otaState)
    /\ libSeen' = [libSeen EXCEPT ![t] = StateAfter(kind, libSeen[t])]
    /\ sessions' = SessionsAfter(kind, libSeen[t], sessions)
    /\ ending' = [ending EXCEPT ![t] = (kind = "end")]
    /\ UNCHANGED <<coordVars, budgetVars, restarted, ready, serviced, mutex, nMutex, appVars, cbVars, pc, held>>

otaStart(t) == \E taken \in BOOLEAN : otaEvent(t, "start", "-", taken)

otaProgress(t) == otaEvent(t, "progress", "-", TRUE)

otaEnd(t) == otaEvent(t, "end", "-", TRUE)

otaError(t, error) == \E taken \in BOOLEAN : otaEvent(t, "error", error, taken)

\* delay(1000); ESP.restart();   the device reboots: nothing runs after it.
espRestart(t) ==
    /\ Running /\ ending[t]
    /\ restarted' = TRUE
    /\ UNCHANGED <<coordVars, callVars, budgetVars, otaState, otaUpdateInProgress, ending,
                   suspended, sessions, errorAt, mutex, nMutex, appVars, cbVars, pc, held, last>>

\* ------------------------------------------------------------ specification
\* Tasks calling the public API in any order and interleaving.
Next ==
    \E t \in Tasks :
        \/ initializeEnter(t)
        \/ \E created \in BOOLEAN : initializeCreateMutex(t, created)
        \/ initializeLock(t)
        \/ \E call \in InitializeCalls :
              initializeBody(t, call.hostname, call.password, call.port,
                             call.networkCheckCb)
        \/ isInitializedEnter(t)
        \/ isInitializedLock(t)
        \/ isInitialized(t)
        \/ setCallbackEnter(t)
        \/ setCallbackLock(t)
        \/ \E cb \in CallbackArgs : setStartCallback(t, cb)
        \/ \E cb \in CallbackArgs : setEndCallback(t, cb)
        \/ \E cb \in CallbackArgs : setProgressCallback(t, cb)
        \/ \E cb \in CallbackArgs : setErrorCallback(t, cb)
        \/ handleUpdatesEnter(t)
        \/ isNetworkReadyLock(t)
        \/ CheckNetwork(t)
        \/ handleUpdatesLock(t)
        \/ handleUpdatesService(t)
        \/ otaStart(t)
        \/ otaProgress(t)
        \/ otaEnd(t)
        \/ \E error \in ErrorsBeforeStart \cup ErrorsAfterStart : otaError(t, error)
        \/ handleReturn(t)
        \/ espRestart(t)
        \/ handleUpdatesDone(t)

Spec == Init /\ [][Next]_vars

\* What a task inside a call does next, once it is scheduled: every step of a
\* call after its entry.  The lifecycle events are the library's choice and
\* are not among them.
Continue(t) ==
    \/ \E created \in BOOLEAN : initializeCreateMutex(t, created)
    \/ initializeLock(t)
    \/ \E call \in InitializeCalls :
          initializeBody(t, call.hostname, call.password, call.port, call.networkCheckCb)
    \/ isInitializedLock(t)
    \/ isInitialized(t)
    \/ setCallbackLock(t)
    \/ \E kind \in Kinds, cb \in CallbackArgs : setCallback(t, kind, cb)
    \/ isNetworkReadyLock(t)
    \/ CheckNetwork(t)
    \/ handleUpdatesLock(t)
    \/ handleUpdatesService(t)
    \/ handleReturn(t)
    \/ espRestart(t)
    \/ handleUpdatesDone(t)

\* The FreeRTOS scheduler runs every task that is ready: a task inside a call
\* takes its next step unless that step stays blocked on the mutex.
LiveSpec == Spec /\ \A t \in Tasks : WF_vars(Continue(t))

\* The example application: the main task runs OTATask::init and
\* OTATask::start while no OTA task exists (main.cpp, setupEthernet and the
\* reconnect check of loop); the OTA task, once created, calls
\* handleUpdates in its loop.
ExampleNext ==
    \/ OTATaskInit(MainTask)
    \/ \E created \in BOOLEAN : initializeCreateMutex(MainTask, created)
    \/ initializeLock(MainTask)
    \/ initializeBody(MainTask, DEVICE_HOSTNAME, OTA_PASSWORD, OTA_PORT, isNetworkConnected)
    \/ OTATaskInitNext(MainTask)
    \/ isInitializedLock(MainTask)
    \/ isInitialized(MainTask)
    \/ setCallbackLock(MainTask)
    \/ script[MainTask] \in 3..6 /\ setCallback(MainTask, StageKind[script[MainTask]], TaskCb)
    \/ \E created \in BOOLEAN : OTATaskStart(MainTask, created)
    \/ taskFunction(OtaTask)
    \/ isNetworkReadyLock(OtaTask)
    \/ CheckNetwork(OtaTask)
    \/ handleUpdatesLock(OtaTask)
    \/ handleUpdatesService(OtaTask)
    \/ otaStart(OtaTask)
    \/ otaProgress(OtaTask)
    \/ otaEnd(OtaTask)
    \/ \E error \in ErrorsBeforeStart \cup ErrorsAfterStart : otaError(OtaTask, error)
    \/ handleReturn(OtaTask)
    \/ espRestart(OtaTask)
    \/ handleUpdatesDone(OtaTask)

ExampleSpec == Init /\ [][ExampleNext]_vars

\* ------------------------------------------- initialize from a callback
\* The events after whose callback the service routine goes on.
ReentrantKinds == {"start", "progress", "error"}

\* A lifecycle event is dispatched to a callback of the application (one
\* installed by a setter) that calls OTAManager::initialize: the task enters
\* initialize from inside ArduinoOTA.handle(), still holding what the
\* MutexGuard of handleUpdates took.
callbackInitialize(t, kind, error) ==
    /\ Running /\ pc[t] = "handle" /\ ~ending[t] /\ ~nested[t]
    /\ kind \in ReentrantKinds
    /\ CanFire(kind, error, libSeen[t])
    /\ callbacks[kind] = TestCb
    /\ last' = IF kind = "progress"
                  THEN [op |-> "event", kind |-> kind, callee |-> TestCb,
                        found |-> otaUpdateInProgress, wrote |-> Written(kind, TestCb),
                        fed |-> FeedsWatchdog(TestCb)]
                  ELSE [op |-> "event", kind |-> kind, callee |-> TestCb,
                        found |-> otaUpdateInProgress, wrote |-> Written(kind, TestCb)]
    /\ otaState' = StateAfter(kind, otaState)
    /\ libSeen' = [libSeen EXCEPT ![t] = StateAfter(kind, libSeen[t])]
    /\ sessions' = SessionsAfter(kind, libSeen[t], sessions)
    /\ nested' = [nested EXCEPT ![t] = TRUE]
    /\ outer' = [outer EXCEPT ![t] = held[t]]
    /\ held' = [held EXCEPT ![t] = 0]
    /\ Goto(t, InitializeEntry)
    /\ UNCHANGED <<coordVars, budgetVars, otaUpdateInProgress, restarted, ending, suspended,
                   errorAt, ready, serviced, mutex, nMutex, appVars>>

\* The calls of Spec, with callbacks of the application that call initialize.
ReentrantNext ==
    \/ Next
    \/ \E t \in Tasks, kind \in ReentrantKinds,
          error \in {"-"} \cup ErrorsBeforeStart \cup ErrorsAfterStart :
          callbackInitialize(t, kind, error)

ReentrantSpec ==
    Init /\ [][ReentrantNext]_vars /\ \A t \in Tasks : WF_vars(Continue(t))

\* ------------------------------------------------------- readiness checks
\* The firmware is built one way or another and no check has been made.
ReadinessInit ==
    /\ CoreInit /\ LoopIdle /\ ProgressIdle /\ SysIdle
    /\ net \in {NoCheck(build) : build \in BuildConfigs}

\* Warnings counted.
MaxWarnings == 2

\* Variant: the warning logged at every check that finds no network.
WarningDueEveryTime(cb, answer, warned) == cb = 0 /\ ~answer

\* The end of isNetworkReady(), reached when no predicate is stored and no
\* probe found a connection: if (!warnedOnce) { warn; warnedOnce = true; }
WarningDue(cb, answer, warned) == cb = 0 /\ ~answer /\ ~warned

\* isNetworkReady() in the build of this firmware, with what the check
\* worked from and what it returned kept: the user predicate is called only
\* when one is stored.
isNetworkReadyChecked(t, links, predicate) ==
    LET called == networkCheckCallback # 0 /\ predicate
        answer == NetworkReady(networkCheckCallback, called, net.build, links)
        warns == WarningDue(networkCheckCallback, answer, net.warnedOnce)
    IN  /\ isNetworkReadyReturns(t, answer)
        /\ net' = [build |-> net.build, checked |-> TRUE,
                    callback |-> networkCheckCallback, predicate |-> called,
                    links |-> links, answer |-> answer,
                    warnedOnce |-> net.warnedOnce \/ warns,
                    warnedBefore |-> net.warnedOnce,
                    warnings |-> IF warns /\ net.warnings < MaxWarnings
                                    THEN net.warnings + 1 ELSE net.warnings]
        /\ UNCHANGED <<loopVars, progressVars, cbVars, sysVars>>

\* One task calling initialize, with any of its argument tuples and again,
\* while another calls handleUpdates, the readiness check of every
\* handleUpdates call followed.
ReadinessNext ==
    \/ initializeEnter(MainTask)
    \/ \E created \in BOOLEAN : initializeCreateMutex(MainTask, created)
    \/ initializeLock(MainTask)
    \/ \E call \in InitializeCalls :
          initializeBody(MainTask, call.hostname, call.password, call.port,
                         call.networkCheckCb)
    \/ handleUpdatesEnter(OtaTask)
    \/ isNetworkReadyLock(OtaTask)
    \/ \E links \in LinkStates, predicate \in BOOLEAN :
          isNetworkReadyChecked(OtaTask, links, predicate)
    \/ handleUpdatesLock(OtaTask)
    \/ handleUpdatesService(OtaTask)
    \/ handleReturn(OtaTask)
    \/ handleUpdatesDone(OtaTask)

ReadinessSpec == ReadinessInit /\ [][ReadinessNext]_vars

\* --------------------------------------------------- supervised task loops
\* ProjectConfig.h
SENSOR_TASK_INTERVAL_MS == 1000
MONITORING_TASK_INTERVAL_MS == 5000
OTA_TASK_INTERVAL_MS == 250
\* const int segments of SensorTask::taskFunction and MonitoringTask::taskFunction
SensorSegments == 5
MonitoringSegments == 10
\* WatchdogConfig::enabled(false, ms) of the three registrations
SensorTimeoutMs == 5000
MonitoringTimeoutMs == 10000
OtaTimeoutMs == 10000
\* xSemaphoreTake(dataMutex, pdMS_TO_TICKS(100))
MutexWaitMs == 100

WdtTasks == {"sensor", "monitoring", "ota"}

\* The delay of a loop, the number of segments it is split in (the OTA task
\* sleeps its interval in one piece) and the timeout the task registers.
Interval == [sensor |-> SENSOR_TASK_INTERVAL_MS,
             monitoring |-> MONITORING_TASK_INTERVAL_MS,
             ota |-> OTA_TASK_INTERVAL_MS]
Segments == [sensor |-> SensorSegments, monitoring |-> MonitoringSegments, ota |-> 1]
Timeout == [sensor |-> SensorTimeoutMs, monitoring |-> MonitoringTimeoutMs,
            ota |-> OtaTimeoutMs]

\* Variant: the delay slept in one piece.
delayWhole(interval, segments) == interval

\* const int delayPerSegment = SENSOR_TASK_INTERVAL_MS / segments;
delayPerSegment(interval, segments) == interval \div segments

\* How long an xSemaphoreTake with the 100 ms timeout can take: it returns at
\* once or at any time up to the timeout when it gets the mutex, and at the
\* timeout when it does not.
WaitTimes(taken) == IF taken THEN {0, MutexWaitMs} ELSE {MutexWaitMs}

\* esp_task_wdt_reset()
Feed == gap' = 0 /\ sleepGap' = 0

\* if (wdtRegistered) esp_task_wdt_reset();
FeedIfRegistered == IF wdtRegistered THEN Feed ELSE UNCHANGED <<gap, sleepGap>>

\* vTaskDelay(pdMS_TO_TICKS(ms))
Sleep(ms) == gap' = gap + ms /\ sleepGap' = sleepGap + ms

\* A bounded wait for a mutex.
Wait(ms) == gap' = gap + ms /\ UNCHANGED sleepGap

\* A task function has got to its loop: wdtRegistered is what
\* registerCurrentTaskWithWatchdog returned.
LoopInit ==
    /\ CoreInit /\ ProgressIdle /\ ReadinessIdle /\ SysIdle
    /\ wtask \in WdtTasks /\ wpc = "loop" /\ seg = 0 /\ gap = 0 /\ sleepGap = 0
    /\ wdtRegistered \in BOOLEAN /\ isSuspended = FALSE

\* SensorTask::taskFunction: esp_task_wdt_reset() at the top of the loop.
SensorLoopFeed ==
    /\ wtask = "sensor" /\ wpc = "loop"
    /\ Feed
    /\ wpc' = "check"
    /\ UNCHANGED <<coreVars, sysVars, net, progressVars, wtask, seg, wdtRegistered, isSuspended>>

\* if (xSemaphoreTake(dataMutex, 100 ms) == pdTRUE) { isSuspended = suspended; }
\* value is SensorTask::suspended at that moment.
SensorCheckSuspended(taken, value, ms) ==
    /\ wtask = "sensor" /\ wpc = "check"
    /\ ms \in WaitTimes(taken)
    /\ Wait(ms)
    /\ isSuspended' = (taken /\ value)
    /\ wpc' = IF taken /\ value THEN "delay" ELSE "read"
    /\ UNCHANGED <<coreVars, sysVars, net, progressVars, wtask, seg, wdtRegistered>>

\* readSensors(): if (wdtRegistered) esp_task_wdt_reset();   before the reading
readSensorsFeedBefore ==
    /\ wtask = "sensor" /\ wpc = "read"
    /\ FeedIfRegistered
    /\ wpc' = "update"
    /\ UNCHANGED <<coreVars, sysVars, net, progressVars, wtask, seg, wdtRegistered, isSuspended>>

\* readSensors(): if (xSemaphoreTake(dataMutex, 100 ms) == pdTRUE) { ... }
readSensorsUpdate(taken, ms) ==
    /\ wtask = "sensor" /\ wpc = "update"
    /\ ms \in WaitTimes(taken)
    /\ Wait(ms)
    /\ wpc' = "read_done"
    /\ UNCHANGED <<coreVars, sysVars, net, progressVars, wtask, seg, wdtRegistered, isSuspended>>

\* readSensors(): if (wdtRegistered) esp_task_wdt_reset();   after the reading
readSensorsFeedAfter ==
    /\ wtask = "sensor" /\ wpc = "read_done"
    /\ FeedIfRegistered
    /\ wpc' = "delay"
    /\ UNCHANGED <<coreVars, sysVars, net, progressVars, wtask, seg, wdtRegistered, isSuspended>>

\* MonitoringTask::taskFunction: if (wdtRegistered) esp_task_wdt_reset(); at
\* the top of the loop, then logSystemHealth() and logNetworkStatus().
MonitoringLoopFeed ==
    /\ wtask = "monitoring" /\ wpc = "loop"
    /\ FeedIfRegistered
    /\ wpc' = "getTemperature"
    /\ UNCHANGED <<coreVars, sysVars, net, progressVars, wtask, seg, wdtRegistered, isSuspended>>

\* logSensorData(): SensorTask::getTemperature(), then
\* SensorTask::getHumidity(), each with its wait for dataMutex.
getSensorValue(taken, ms) ==
    /\ wtask = "monitoring" /\ wpc \in {"getTemperature", "getHumidity"}
    /\ ms \in WaitTimes(taken)
    /\ Wait(ms)
    /\ wpc' = IF wpc = "getTemperature" THEN "getHumidity" ELSE "log_done"
    /\ UNCHANGED <<coreVars, sysVars, net, progressVars, wtask, seg, wdtRegistered, isSuspended>>

\* logSensorData(): esp_task_wdt_reset(); at its end
logSensorDataFeed ==
    /\ wtask = "monitoring" /\ wpc = "log_done"
    /\ Feed
    /\ wpc' = "delay"
    /\ UNCHANGED <<coreVars, sysVars, net, progressVars, wtask, seg, wdtRegistered, isSuspended>>

\* OTATask::taskFunction: esp_task_wdt_reset() at the top of the loop, then
\* OTAManager::handleUpdates() and the reads of the status, whose waits have
\* no timeout.
OtaLoopFeed ==
    /\ wtask = "ota" /\ wpc = "loop"
    /\ Feed
    /\ wpc' = "delay"
    /\ UNCHANGED <<coreVars, sysVars, net, progressVars, wtask, seg, wdtRegistered, isSuspended>>

\* vTaskDelay(pdMS_TO_TICKS(delayPerSegment));   one segment of the delay; the
\* OTA task sleeps OTA_TASK_INTERVAL_MS at once.
DelaySegment ==
    /\ wtask \in WdtTasks /\ wpc = "delay"
    /\ Sleep(delayPerSegment(Interval[wtask], Segments[wtask]))
    /\ wpc' = "delay_feed"
    /\ UNCHANGED <<coreVars, sysVars, net, progressVars, wtask, seg, wdtRegistered, isSuspended>>

\* The feed that follows a segment: esp_task_wdt_reset() in the sensor and
\* the OTA task, if (wdtRegistered) esp_task_wdt_reset() in the monitoring
\* task; then i++ and the next segment, or the next round of the loop.
DelayFeed ==
    /\ wtask \in WdtTasks /\ wpc = "delay_feed"
    /\ IF wtask = "monitoring" THEN FeedIfRegistered ELSE Feed
    /\ IF seg + 1 < Segments[wtask]
          THEN seg' = seg + 1 /\ wpc' = "delay"
          ELSE seg' = 0 /\ wpc' = "loop"
    /\ UNCHANGED <<coreVars, sysVars, net, progressVars, wtask, wdtRegistered, isSuspended>>

LoopNext ==
    \/ SensorLoopFeed
    \/ \E taken \in BOOLEAN, value \in BOOLEAN, ms \in {0, MutexWaitMs} :
          SensorCheckSuspended(taken, value, ms)
    \/ readSensorsFeedBefore
    \/ \E taken \in BOOLEAN, ms \in {0, MutexWaitMs} : readSensorsUpdate(taken, ms)
    \/ readSensorsFeedAfter
    \/ MonitoringLoopFeed
    \/ \E taken \in BOOLEAN, ms \in {0, MutexWaitMs} : getSensorValue(taken, ms)
    \/ logSensorDataFeed
    \/ OtaLoopFeed
    \/ DelaySegment
    \/ DelayFeed

\* The loop of one of the three supervised tasks of the example application.
LoopSpec == LoopInit /\ [][LoopNext]_vars

\* -------------------------------------------- sensor loop beside the OTA task
\* SensorTask::taskFunction has got to its loop while setup() and the OTA
\* task of the example application run.
SensorInit ==
    /\ CoreInit /\ ProgressIdle /\ ReadinessIdle /\ SysIdle
    /\ wtask = "sensor" /\ wpc = "loop" /\ seg = 0 /\ gap = 0 /\ sleepGap = 0
    /\ wdtRegistered \in BOOLEAN /\ isSuspended = FALSE

\* The steps of the example application and of the loop of the sensor task,
\* whose flag check reads SensorTask::suspended; no task runs after the
\* restart.
SensorNext ==
    \/ ExampleNext
    \/ Running /\ SensorLoopFeed
    \/ \E taken \in BOOLEAN, ms \in {0, MutexWaitMs} :
          Running /\ SensorCheckSuspended(taken, suspended, ms)
    \/ Running /\ readSensorsFeedBefore
    \/ \E taken \in BOOLEAN, ms \in {0, MutexWaitMs} :
          Running /\ readSensorsUpdate(taken, ms)
    \/ Running /\ readSensorsFeedAfter
    \/ Running /\ DelaySegment
    \/ Running /\ DelayFeed

SensorSpec == SensorInit /\ [][SensorNext]_vars

\* ------------------------------------------ the locks of the example
\* The tasks of the example application and the three locks they use:
\* OTAManager::mutex, OTATask::otaStatusMutex and SensorTask::dataMutex.
ExampleTasks == {"main", "ota", "sensor", "monitoring"}
ExampleLocks == {"mutex", "otaStatusMutex", "dataMutex"}

\* xSemaphoreTake(dataMutex, pdMS_TO_TICKS(100)) gives up after 100 ms; the
\* guards on the other two locks wait until they have the lock.
Bounded(lock) == lock = "dataMutex"

TakeOp(lock) == [op |-> "take", lock |-> lock]
GiveOp(lock) == [op |-> "give", lock |-> lock]
\* A lock taken, what it protects done, and the lock given back.
Section(lock) == <<TakeOp(lock), GiveOp(lock)>>

\* The lock operations of the OTATask handler of an event, in their order:
\* onOTAStart and onOTAError close the block of SemaphoreGuard
\* guard(otaStatusMutex) before they call SensorTask::suspend() or resume(),
\* onOTAEnd has the guarded block and then delay(1000); ESP.restart();
\* onOTAProgress takes no lock.
HandlerOps(kind) ==
    IF kind \in {"start", "error"} THEN Section("otaStatusMutex") \o Section("dataMutex")
    ELSE IF kind = "end" THEN Section("otaStatusMutex") \o <<[op |-> "restart", lock |-> "none"]>>
    ELSE <<>>

\* What a round of a task's loop can be.  The OTA task: handleUpdates finds
\* the network not ready ("offline"), or ArduinoOTA.handle() fires no event
\* ("none") or one event.  The sensor task reads or finds itself suspended.
\* The main task runs OTATask::init and OTATask::start ("init") until the OTA
\* task exists, and takes no lock in loop() from then on.
Rounds(t) ==
    IF t = "ota" THEN {"offline", "none", "start", "progress", "end", "error"}
    ELSE IF t = "sensor" THEN {"read", "suspended"}
    ELSE IF t = "monitoring" THEN {"log"}
    ELSE {"init", "loop"}

\* The lock operations of one round, in program order.
\* OTA task: isNetworkReady() under MutexGuard lock(mutex); ArduinoOTA.handle()
\* with the handler it calls under MutexGuard lock(mutex); then the read of
\* otaUpdateInProgress under SemaphoreGuard guard(otaStatusMutex).
\* Sensor task: the flag check, and the update in readSensors().
\* Monitoring task: SensorTask::getTemperature() and getHumidity().
\* Main task: OTAManager::initialize, isInitialized and the four setters.
Program(t, r) ==
    IF t = "ota" THEN
        IF r = "offline" THEN Section("mutex") \o Section("otaStatusMutex")
        ELSE IF r \in Rounds("ota") THEN
               Section("mutex") \o <<TakeOp("mutex")>> \o HandlerOps(r)
                   \o <<GiveOp("mutex")>> \o Section("otaStatusMutex")
        ELSE <<>>
    ELSE IF t = "sensor" THEN
        IF r = "read" THEN Section("dataMutex") \o Section("dataMutex")
        ELSE IF r = "suspended" THEN Section("dataMutex")
        ELSE <<>>
    ELSE IF t = "monitoring" THEN
        IF r = "log" THEN Section("dataMutex") \o Section("dataMutex") ELSE <<>>
    ELSE IF r = "init" THEN
        Section("mutex") \o Section("mutex") \o Section("mutex") \o Section("mutex")
            \o Section("mutex") \o Section("mutex")
    ELSE <<>>

\* The round of a task is over.
RoundDone(t) == lpc[t] > Len(Program(t, round[t]))

\* The operation a task is at.
OpAt(t) == Program(t, round[t])[lpc[t]]

\* The task is in a wait for a lock.
Waiting(t) == ~RoundDone(t) /\ OpAt(t).op = "take"

\* setup() has created the sensor and the monitoring task and has not got to
\* setupEthernet() yet; no lock is held.
LockInit ==
    /\ CoreInit /\ LoopIdle /\ ProgressIdle /\ ReadinessIdle /\ StartIdle /\ MainIdle
    /\ ThrottleIdle
    /\ lpc = [t \in ExampleTasks |-> 1]
    /\ owner = [l \in ExampleLocks |-> "none"]
    /\ round = [t \in ExampleTasks |-> "new"]

\* The loop of a task comes round; the OTA task runs once OTATask::start has
\* created it, and the main task calls OTATask::init only while it has not.
NextRound(t, r) ==
    /\ RoundDone(t) /\ r \in Rounds(t)
    /\ round[t] \notin {"loop", "halted"}
    /\ t = "ota" => round["main"] = "loop"
    /\ t = "main" /\ r = "loop" => round[t] = "init"
    /\ round' = [round EXCEPT ![t] = r]
    /\ lpc' = [lpc EXCEPT ![t] = 1]
    /\ UNCHANGED <<coreVars, loopVars, progressVars, net, startVars, mainVars, throttleVars, owner>>

\* xSemaphoreTake returns pdTRUE, or the guard is constructed: the lock is
\* free and the task has it.
Acquire(t) ==
    /\ Waiting(t) /\ owner[OpAt(t).lock] = "none"
    /\ owner' = [owner EXCEPT ![OpAt(t).lock] = t]
    /\ lpc' = [lpc EXCEPT ![t] = @ + 1]
    /\ UNCHANGED <<coreVars, loopVars, progressVars, net, startVars, mainVars, throttleVars, round>>

\* xSemaphoreTake(dataMutex, 100 ms) returns pdFALSE: another task has kept
\* the lock for the whole wait; the guarded block and its give are skipped.
TimeOut(t) ==
    /\ Waiting(t) /\ Bounded(OpAt(t).lock)
    /\ owner[OpAt(t).lock] \notin {"none", t}
    /\ lpc' = [lpc EXCEPT ![t] = @ + 2]
    /\ UNCHANGED <<coreVars, loopVars, progressVars, net, startVars, mainVars, throttleVars, owner, round>>

\* Variant: the lock stays with the task that gives it.
OwnerAfterGiveKept(t, lock, owners) == owners

\* xSemaphoreGive, or the guard goes out of scope.
OwnerAfterGive(t, lock, owners) == [owners EXCEPT ![lock] = "none"]

Release(t) ==
    /\ ~RoundDone(t) /\ OpAt(t).op = "give"
    /\ owner' = OwnerAfterGive(t, OpAt(t).lock, owner)
    /\ lpc' = [lpc EXCEPT ![t] = @ + 1]
    /\ UNCHANGED <<coreVars, loopVars, progressVars, net, startVars, mainVars, throttleVars, round>>

\* ESP.restart() at the end of onOTAEnd: no task runs after it.
LockRestart(t) ==
    /\ ~RoundDone(t) /\ OpAt(t).op = "restart"
    /\ round' = [u \in ExampleTasks |-> "halted"]
    /\ lpc' = [u \in ExampleTasks |-> 1]
    /\ UNCHANGED <<coreVars, loopVars, progressVars, net, startVars, mainVars, throttleVars, owner>>

LockStep(t) ==
    \/ \E r \in Rounds(t) : NextRound(t, r)
    \/ Acquire(t)
    \/ TimeOut(t)
    \/ Release(t)
    \/ LockRestart(t)

LockNext == \E t \in ExampleTasks : LockStep(t)

\* Every task of the example goes on whenever it can: the scheduler runs
\* every task that is ready.
LockSpec == LockInit /\ [][LockNext]_vars /\ \A t \in ExampleTasks : WF_vars(LockStep(t))

\* ------------------------------------------- setup(), loop() and the network
\* setup() has installed the callbacks of the network and is in
\* EthernetManager::waitForConnection(ETH_CONNECTION_TIMEOUT_MS), the link
\* being down.
MainInit ==
    /\ CoreInit /\ LoopIdle /\ ProgressIdle /\ ReadinessIdle /\ LocksIdle /\ StartIdle
    /\ ThrottleIdle
    /\ mpc = "setup" /\ ethernetConnected = FALSE
    /\ linkUp = FALSE /\ notified = FALSE /\ waited = "none"

\* The link comes up or goes down: EthernetManager::isConnected() changes.
linkChange ==
    /\ Running
    /\ linkUp' = ~linkUp
    /\ UNCHANGED <<coreVars, loopVars, progressVars, net, lockVars, startVars, throttleVars,
                   mpc, ethernetConnected, notified, waited>>

\* onEthernetConnected(ip): ethernetConnected = true;
onEthernetConnected ==
    /\ Running /\ linkUp /\ ~notified
    /\ ethernetConnected' = TRUE
    /\ notified' = TRUE
    /\ UNCHANGED <<coreVars, loopVars, progressVars, net, lockVars, startVars, throttleVars,
                   mpc, linkUp, waited>>

\* onEthernetDisconnected(duration): ethernetConnected = false;
onEthernetDisconnected ==
    /\ Running /\ ~linkUp /\ notified
    /\ ethernetConnected' = FALSE
    /\ notified' = FALSE
    /\ UNCHANGED <<coreVars, loopVars, progressVars, net, lockVars, startVars, throttleVars,
                   mpc, linkUp, waited>>

\* setupEthernet(): waitForConnection returned true and OTATask::init() is
\* entered; OTATask::start() follows when init returns true.
waitConnected ==
    /\ mpc = "setup" /\ linkUp
    /\ OTATaskInitEnter(MainTask)
    /\ mpc' = "setup_done" /\ waited' = "connected"
    /\ UNCHANGED <<loopVars, progressVars, net, lockVars, startVars, throttleVars,
                   ethernetConnected, linkUp, notified>>

\* setupEthernet(): waitForConnection returned false; the function returns
\* false with OTATask::init() and OTATask::start() not called.
waitTimedOut ==
    /\ Running /\ mpc = "setup" /\ ~linkUp
    /\ mpc' = "setup_done" /\ waited' = "timeout"
    /\ UNCHANGED <<coreVars, loopVars, progressVars, net, lockVars, startVars, throttleVars,
                   ethernetConnected, linkUp, notified>>

\* setup() after setupEthernet():
\* ethernetConnected = EthernetManager::isConnected();   and loop() begins.
setupDone ==
    /\ Running /\ mpc = "setup_done" /\ pc[MainTask] = "idle" /\ script[MainTask] = 0
    /\ ethernetConnected' = linkUp
    /\ mpc' = "loop"
    /\ UNCHANGED <<coreVars, loopVars, progressVars, net, lockVars, startVars, throttleVars,
                   linkUp, notified, waited>>

\* if (connected != ethernetConnected) { ...
\*     if (connected && OTATask::taskHandle == nullptr) { restart }
RestartNeeded(connected, flag, handle) == connected # flag /\ connected /\ ~handle

\* loop(): the connection check made every 10 seconds.
\* bool connected = EthernetManager::isConnected(); on a mismatch
\* ethernetConnected = connected, and OTATask::init() is entered when the
\* link is up and there is no OTA task.
connectionCheck ==
    /\ Running /\ mpc = "loop" /\ pc[MainTask] = "idle" /\ script[MainTask] = 0
    /\ ethernetConnected' = linkUp
    /\ IF RestartNeeded(linkUp, ethernetConnected, taskHandle)
          THEN OTATaskInitEnter(MainTask)
          ELSE UNCHANGED coreVars
    /\ UNCHANGED <<loopVars, progressVars, net, lockVars, startVars, throttleVars,
                   mpc, linkUp, notified, waited>>

\* The steps of the main task: setup(), loop() and the calls OTATask::init
\* and OTATask::start make.
MainProgram ==
    \/ waitConnected
    \/ waitTimedOut
    \/ setupDone
    \/ connectionCheck
    \/ \E created \in BOOLEAN : initializeCreateMutex(MainTask, created)
    \/ initializeLock(MainTask)
    \/ initializeBody(MainTask, DEVICE_HOSTNAME, OTA_PASSWORD, OTA_PORT, isNetworkConnected)
    \/ OTATaskInitNext(MainTask)
    \/ isInitializedLock(MainTask)
    \/ isInitialized(MainTask)
    \/ setCallbackLock(MainTask)
    \/ script[MainTask] \in 3..6 /\ setCallback(MainTask, StageKind[script[MainTask]], TaskCb)
    \/ \E created \in BOOLEAN : OTATaskStart(MainTask, created)

MainNext ==
    \/ MainProgram
    \/ linkChange
    \/ onEthernetConnected
    \/ onEthernetDisconnected

\* The main task goes on whenever it can, and a callback of the network that
\* is due is called; the link changes or not.
MainSpec ==
    /\ MainInit /\ [][MainNext]_vars
    /\ WF_vars(MainProgram) /\ WF_vars(onEthernetConnected) /\ WF_vars(onEthernetDisconnected)

\* OTATask::start() called by the application once more, at any time in
\* loop().
OTATaskStartCall(created) ==
    /\ BeginCall(MainTask) /\ mpc = "loop"
    /\ start(created)
    /\ UNCHANGED <<coordVars, libVars, callVars, mutex, nMutex, script, loopVars, progressVars,
                   net, lockVars, mainVars, throttleVars, cbVars, pc, held, last>>

StartNext ==
    \/ MainNext
    \/ \E created \in BOOLEAN : OTATaskStartCall(created)

\* setup(), loop() and OTATask::start called in any order beside them.
StartSpec == MainInit /\ [][StartNext]_vars

\* ------------------------------------------ status logs of handleUpdates
\* #define OTA_LOG_INTERVAL_MS 60000   #define OTA_ERROR_LOG_INTERVAL_MS 10000
OTA_LOG_INTERVAL_MS == 60000
OTA_ERROR_LOG_INTERVAL_MS == 10000
LogInterval == [k \in LogKinds |-> IF k = "waiting" THEN OTA_LOG_INTERVAL_MS
                                   ELSE OTA_ERROR_LOG_INTERVAL_MS]

\* The real time followed, and the times between two things that happen:
\* half the shorter interval, and the shorter interval.
MaxTime == 80000
TimeSteps == {5000, 10000}
\* How long before the wrap of millis() the logs of a long-running device
\* begin to be followed.
WrapIn == 20000

\* a + d in unsigned 32-bit arithmetic, d a number below 2^31.
Add32(a, d) ==
    LET lo == a[2] + (d % Half)
        hi == a[1] + (d \div Half) + (lo \div Half)
    IN  U32(hi % Half, lo % Half)

\* a - b in unsigned 32-bit arithmetic.
Sub32(a, b) ==
    LET lo == a[2] - b[2]
        hi == a[1] - b[1] - (IF lo < 0 THEN 1 ELSE 0)
    IN  U32((hi + Half) % Half, (lo + Half) % Half)

\* a >= n for an unsigned 32-bit a and a number n below 2^31.
Ge32(a, n) == a[1] > n \div Half \/ (a[1] = n \div Half /\ a[2] >= n % Half)

\* Variant: the difference taken as a signed number, with no wraparound.
DueSigned(now, before, interval) ==
    LET dHi == now[1] - before[1]
        dLo == now[2] - before[2]
    IN  \/ dHi >= 2
        \/ dHi = 1 /\ Half + dLo >= interval
        \/ dHi = 0 /\ dLo >= interval

\* now - lastLog >= OTA_LOG_INTERVAL_MS, in unsigned long.
Due(now, before, interval) == Ge32(Sub32(now, before), interval)

\* millis() at the real time c.
Millis(c) == Add32(epoch, c)

\* The statics at boot, or those of a device that has run for long: millis()
\* is WrapIn short of its wrap and a line of each kind has just been written.
ThrottleStart ==
    \/ ThrottleIdle
    \/ /\ clock = 0 /\ epoch = U32(Half - 1, Half - WrapIn)
       /\ lastLog = epoch /\ lastErrorLog = epoch
       /\ tpc = [t \in Tasks |-> "none"]
       /\ logAt = [k \in LogKinds |-> 0] /\ nLogs = [k \in LogKinds |-> 0]

ThrottleInit ==
    /\ CoreInit /\ LoopIdle /\ ProgressIdle /\ ReadinessIdle
    /\ LocksIdle /\ StartIdle /\ MainIdle
    /\ ThrottleStart

\* Time passes between two steps of the tasks, from the moment handleUpdates
\* gets past its quick check; the condition and the log line that follows it
\* are adjacent statements.
tick(d) ==
    /\ initialized /\ clock + d <= MaxTime
    /\ \A t \in Tasks : tpc[t] # "else_log"
    /\ clock' = clock + d
    /\ UNCHANGED <<coreVars, loopVars, progressVars, net, lockVars, startVars, mainVars,
                   epoch, lastLog, lastErrorLog, tpc, logAt, nLogs>>

\* A status line of a kind is written.
Emit(kind) ==
    /\ logAt' = [logAt EXCEPT ![kind] = clock]
    /\ nLogs' = [nLogs EXCEPT ![kind] = @ + 1]

\* handleUpdates with isNetworkReady() true: under MutexGuard lock(mutex),
\* after ArduinoOTA.handle(): unsigned long now = millis();
\* if (now - lastLog >= OTA_LOG_INTERVAL_MS) { log; lastLog = now; }
\* The block is one step: the mutex keeps the other tasks out of it.
waitingLog(t) ==
    /\ initialized /\ tpc[t] \in {"none", "idle"}
    /\ \A u \in Tasks : tpc[u] # "locked"
    /\ IF Due(Millis(clock), lastLog, OTA_LOG_INTERVAL_MS)
          THEN Emit("waiting") /\ lastLog' = Millis(clock)
          ELSE UNCHANGED <<logAt, nLogs, lastLog>>
    /\ tpc' = [tpc EXCEPT ![t] = "locked"]
    /\ UNCHANGED <<coreVars, loopVars, progressVars, net, lockVars, startVars, mainVars,
                   clock, epoch, lastErrorLog>>

\* handleUpdates with isNetworkReady() false, no lock held:
\* unsigned long now = millis(); if (now - lastErrorLog >= OTA_ERROR_LOG_INTERVAL_MS)
errorCheck(t) ==
    /\ initialized /\ tpc[t] \in {"none", "idle"}
    /\ tpc' = [tpc EXCEPT ![t] = IF Due(Millis(clock), lastErrorLog, OTA_ERROR_LOG_INTERVAL_MS)
                                    THEN "else_log" ELSE "else_skip"]
    /\ UNCHANGED <<coreVars, loopVars, progressVars, net, lockVars, startVars, mainVars,
                   clock, epoch, lastLog, lastErrorLog, logAt, nLogs>>

\* { OTAM_LOG_E("Network not connected, skipping OTA check"); lastErrorLog = now; }
errorLog(t) ==
    /\ tpc[t] = "else_log"
    /\ Emit("error")
    /\ lastErrorLog' = Millis(clock)
    /\ tpc' = [tpc EXCEPT ![t] = "else_skip"]
    /\ UNCHANGED <<coreVars, loopVars, progressVars, net, lockVars, startVars, mainVars,
                   clock, epoch, lastLog>>

\* handleUpdates returns.
statusReturn(t) ==
    /\ tpc[t] \in {"locked", "else_skip"}
    /\ tpc' = [tpc EXCEPT ![t] = "idle"]
    /\ UNCHANGED <<coreVars, loopVars, progressVars, net, lockVars, startVars, mainVars,
                   clock, epoch, lastLog, lastErrorLog, logAt, nLogs>>

\* The status logging of the handleUpdates calls of task t.
statusStep(t) ==
    \/ waitingLog(t)
    \/ errorCheck(t)
    \/ errorLog(t)
    \/ statusReturn(t)

\* OTAManager::initialize by the main task as OTATask::init calls it.
throttleInitialize ==
    \/ initializeEnter(MainTask)
    \/ \E created \in BOOLEAN : initializeCreateMutex(MainTask, created)
    \/ initializeLock(MainTask)
    \/ initializeBody(MainTask, DEVICE_HOSTNAME, OTA_PASSWORD, OTA_PORT, isNetworkConnected)

ThrottleNext ==
    \/ throttleInitialize
    \/ \E d \in TimeSteps : tick(d)
    \/ \E t \in Tasks : statusStep(t)

\* handleUpdates called by any task, the calls interleaved.
ThrottleSpec == ThrottleInit /\ [][ThrottleNext]_vars

WrapNext ==
    \/ throttleInitialize
    \/ \E d \in TimeSteps : tick(d)
    \/ statusStep(OtaTask)

\* handleUpdates called by the OTA task alone, as in the example.
WrapSpec == ThrottleInit /\ [][WrapNext]_vars

\* --------------------------------------------------------- progress handlers
\* The size of the image in a session: the total argument of the handlers.
FirmwareSize == 20
\* Log lines counted per step.
MaxStepLines == 2

\* The percentage steps the handlers log at: percent % 10 in
\* OTATask::onOTAProgress, currentProgress % 5 in OTAManager::handleOTAProgress.
TaskStep == 10
DefaultStep == 5
StepSize == [h \in {TaskCb, DefaultCb} |-> IF h = TaskCb THEN TaskStep ELSE DefaultStep]

\* int percent = (progress * 100) / total;   the product stays within the
\* unsigned int of the code for every image that fits the flash of the device.
Percent(bytes, total) == (bytes * 100) \div total

\* OTATask::onOTAProgress: if (percent >= lastPercent + 10 || percent == 100)
onOTAProgressLogs(percent, lastLogged) == percent >= lastLogged + 10 \/ percent = 100

\* OTAManager::handleOTAProgress: if (currentProgress >= lastPrintedStep + 5)
handleOTAProgressLogs(percent, lastLogged) == percent >= lastLogged + 5

\* The count of the log lines of a session by step, after a line for percent.
LineLogged(h, percent) ==
    LET step == percent \div StepSize[h] IN
      /\ loggedStep' = step
      /\ stepLines' = IF step # loggedStep THEN 1
                       ELSE IF stepLines < MaxStepLines THEN stepLines + 1
                       ELSE MaxStepLines

\* A progress handler is followed from the boot of the device.
ProgressInit ==
    /\ CoreInit /\ LoopIdle /\ ReadinessIdle /\ SysIdle
    /\ handler \in {TaskCb, DefaultCb} /\ progress = 0
    /\ lastPercent = 0 /\ lastPrintedStep = -5
    /\ loggedStep = -1 /\ stepLines = 0

\* OTATask::onOTAProgress(progress, total): the library reports the bytes
\* received so far, which never go down within a session.
onOTAProgress(bytes) ==
    /\ handler = TaskCb
    /\ bytes >= progress
    /\ progress' = bytes
    /\ LET percent == Percent(bytes, FirmwareSize) IN
         IF onOTAProgressLogs(percent, lastPercent)
            THEN /\ lastPercent' = percent - (percent % 10)
                 /\ LineLogged(TaskCb, percent)
            ELSE UNCHANGED <<lastPercent, loggedStep, stepLines>>
    /\ UNCHANGED <<coreVars, sysVars, net, loopVars, handler, lastPrintedStep>>

\* OTAManager::handleOTAProgress(progress, total)
handleOTAProgress(bytes) ==
    /\ handler = DefaultCb
    /\ bytes >= progress
    /\ progress' = bytes
    /\ LET currentProgress == Percent(bytes, FirmwareSize) IN
         IF handleOTAProgressLogs(currentProgress, lastPrintedStep)
            THEN /\ lastPrintedStep' = currentProgress - (currentProgress % 5)
                 /\ LineLogged(DefaultCb, currentProgress)
            ELSE UNCHANGED <<lastPrintedStep, loggedStep, stepLines>>
    /\ UNCHANGED <<coreVars, sysVars, net, loopVars, handler, lastPercent>>

\* The session fails (an error event) and a later one starts from 0 bytes:
\* the statics of the handlers keep their values.
sessionFailed ==
    /\ handler # "none"
    /\ progress' = 0
    /\ loggedStep' = -1 /\ stepLines' = 0
    /\ UNCHANGED <<coreVars, sysVars, net, loopVars, handler, lastPercent, lastPrintedStep>>

ProgressNext ==
    \/ \E bytes \in 0..FirmwareSize : onOTAProgress(bytes)
    \/ \E bytes \in 0..FirmwareSize : handleOTAProgress(bytes)
    \/ sessionFailed

\* The progress calls of the update sessions of one boot.
ProgressSpec == ProgressInit /\ [][ProgressNext]_vars

\* =================================================================== claims
SetterOps == {SetterNames[k] : k \in Kinds}

\* C1: an initialize call with a null or empty hostname, or with port 0,
\* returns leaving initialized, the network-check predicate, the ArduinoOTA
\* configuration and the four callback slots as they were, whatever the
\* prior state, and with the mutex released; the steps of an initialize call
\* before its validation (the creation of the mutex, the wait for it) write
\* none of these either.
C1_InvalidInitializeChangesNothing ==
    [][\A t \in Tasks :
         /\ (/\ pc[t] = "init_body" /\ pc'[t] # "init_body"
             /\ last'.op = "initialize"
             /\ HostnameInvalid(last'.hostname) \/ last'.port = 0)
            => (/\ UNCHANGED <<initialized, networkCheckCallback, otaConfig, callbacks>>
                /\ pc'[t] = "idle"
                /\ held'[t] = 0)
         /\ (pc[t] \in {"init_create", "init_lock"} /\ pc'[t] # pc[t])
            => UNCHANGED <<initialized, networkCheckCallback, otaConfig, callbacks>>]_vars

\* An invalid initialize has returned on a subsystem that was initialized and
\* had a custom callback installed.
C1_Witness ==
    /\ last.op = "initialize" /\ ~last.ok /\ last.port = 0 /\ last.hostname = "test"
    /\ initialized
    /\ callbacks["start"] = TestCb
    /\ networkCheckCallback = 1
    /\ otaConfig = [hostname |-> "device-0", password |-> NullStr, port |-> DefaultPort]

\* A step in which task t leaves the critical section at the given label.
Leaves(t, label) == pc[t] = label /\ pc'[t] = "idle"

\* A step in which the service routine fires a lifecycle event.
EventStep ==
    /\ pc' = pc /\ restarted' = restarted
    /\ last'.op = "event" /\ \E t \in Tasks : pc[t] = "handle"

\* C2: over all interleavings of handleUpdates calls at most one update
\* session is active at a time, every write of true to the in-progress flag
\* finds it false and every write of false finds it true.
C2_AtMostOneSessionAndAlternatingFlag ==
    /\ sessions <= 1
    /\ (last.op = "event" /\ last.wrote # "none") => (last.found = (last.wrote = "false"))

\* C3: in the example application the in-progress flag is true exactly while
\* the library is between a start event and the end or error event that
\* follows it; it goes false->true only in the step that handles a start
\* event and true->false only in the step that handles an end or error
\* event, and no other step writes it, OTATask::init and the initialize it
\* calls (also when called again) included.
C3_FlagMirrorsSession ==
    /\ [](otaUpdateInProgress = (otaState = "updating"))
    /\ [][otaUpdateInProgress' # otaUpdateInProgress =>
             (/\ EventStep
              /\ otaUpdateInProgress' => last'.kind = "start"
              /\ ~otaUpdateInProgress' => last'.kind \in {"end", "error"})]_vars

\* OTATask::onOTAStart has handled a start event and set the flag, after a
\* second OTATask::init (the first start having failed).
C3_Witness ==
    /\ otaUpdateInProgress
    /\ otaState = "updating"
    /\ calls = 3
    /\ last = [op |-> "event", kind |-> "start", callee |-> TaskCb,
               found |-> FALSE, wrote |-> "true"]

\* C4: a valid initialize(B) after initialize(A) leaves the subsystem
\* configured with B's hostname, B's password setting, B's port and B's
\* network check, and initialized.
C4_ReinitializeTakesAllOfB ==
    (last.op = "initialize" /\ last.ok /\ ~HostnameInvalid(last.hostname) /\ last.port # 0)
    => (/\ initialized
        /\ networkCheckCallback = last.networkCheckCb
        /\ otaConfig = [hostname |-> last.hostname,
                        password |-> IF PasswordGiven(last.password)
                                        THEN last.password ELSE NullStr,
                        port     |-> last.port])

\* C5: once an initialize call with valid parameters has completed,
\* initialized stays true over every later step and every isInitialized call
\* returns true.
C5_InitializedIsPermanent ==
    [][/\ initialized => initialized'
       /\ \A t \in Tasks :
            /\ (Leaves(t, "init_body") /\ ParamsValid(last'.hostname, last'.port))
                  => initialized'
            /\ (Leaves(t, "isinit_body") /\ initialized) => (last'.result = TRUE)]_vars

\* isInitialized has returned true after a valid initialize and a later
\* setter call.
C5_Witness ==
    /\ last = [op |-> "isInitialized", result |-> TRUE]
    /\ callbacks["error"] = TestCb

\* What a caller would take for a failure indication.
FailureIndications == {"false", "error"}

\* C6 as stated: a setter called before initialize has succeeded leaves the
\* slots unchanged and returns a failure indication.
C6_SetterBeforeInitializeReportsFailure ==
    [][\A t \in Tasks :
         (Leaves(t, "set_body") /\ ~initialized)
         => (callbacks' = callbacks /\ last'.result \in FailureIndications)]_vars

\* C6 as amended: a setter called before initialize has succeeded leaves the
\* four slots unchanged and returns nothing (the setters are void); the only
\* indication of the rejection is the logged warning.
C6_SetterBeforeInitializeIsVoidNoOp ==
    [][\A t \in Tasks :
         (Leaves(t, "set_body") /\ ~initialized)
         => (/\ callbacks' = callbacks
             /\ last'.result = "void"
             /\ last'.log = NotInitializedWarning)]_vars

\* A setter was called with a real callback on an uninitialized subsystem.
C6_Witness ==
    /\ ~initialized
    /\ last.op = "setProgressCallback" /\ last.cb = TaskCb
    /\ callbacks["progress"] = NoCb

\* C7: after initialize has succeeded a setter called with a non-null
\* callback replaces exactly its own slot; the slots change in no other step
\* than a setter's or initialize's; and each lifecycle event invokes, once,
\* the callback its slot holds at that moment.
C7_SetterInstallsCallbackForItsEvent ==
    [][/\ \A t \in Tasks :
            (Leaves(t, "set_body") /\ initialized /\ last'.cb # NullCb)
            => \E kind \in Kinds :
                  /\ last'.op = SetterNames[kind]
                  /\ callbacks' = [callbacks EXCEPT ![kind] = last'.cb]
       /\ (callbacks' # callbacks)
            => \E t \in Tasks : Leaves(t, "set_body") \/ Leaves(t, "init_body")
       /\ EventStep => (last'.callee = callbacks[last'.kind])]_vars

\* An error event was dispatched to the callback a setter had installed over
\* the default hook, the other slots still holding the default hooks.
C7_Witness ==
    /\ last.op = "event" /\ last.kind = "error" /\ last.callee = TestCb
    /\ callbacks = [k \in Kinds |-> IF k = "error" THEN TestCb ELSE DefaultCb]

\* C8: a setter called with a null callback leaves its slot, the other
\* slots, initialized and the network check unchanged, initialized or not.
C8_NullCallbackIsNoOp ==
    [][\A t \in Tasks :
         (Leaves(t, "set_body") /\ last'.cb = NullCb)
         => UNCHANGED <<callbacks, initialized, networkCheckCallback>>]_vars

\* setEndCallback(nullptr) has returned and the handler installed before is
\* still in the slot.
C8_Witness ==
    /\ last.op = "setEndCallback" /\ last.cb = NullCb
    /\ callbacks["end"] = TaskCb

\* C9: in the example application, after an error event of any kind the
\* in-progress flag is false, the device has not restarted, the library's
\* session is idle again, and the OTA task inside the service routine of a
\* handleUpdates call can fire a start event from there.
C9_ErrorReturnsToIdle ==
    (last.op = "event" /\ last.kind = "error")
    => (/\ ~otaUpdateInProgress
        /\ ~restarted
        /\ otaState = "idle"
        /\ \A t \in Tasks : pc[t] = "handle" => ENABLED otaStart(t))

\* A start event was fired in a handleUpdates call after the one in which
\* OTATask::onOTAError had handled an error event.
C9_Witness ==
    /\ errorAt > 0 /\ calls > errorAt
    /\ last.op = "event" /\ last.kind = "start" /\ last.callee = TaskCb
    /\ otaState = "updating" /\ otaUpdateInProgress

\* C10: in a handleUpdates call on an initialized subsystem the service
\* routine is invoked exactly once when the readiness check returned true and
\* not at all when it returned false.
C10_ServiceExactlyWhenReady ==
    /\ \A t \in Tasks : serviced[t] <= 1 /\ (serviced[t] = 1 => ready[t])
    /\ (last.op = "handleUpdates" /\ last.entered)
          => (last.serviced = (IF last.ready THEN 1 ELSE 0))

\* A handleUpdates call whose readiness check returned true has completed.
C10_Witness ==
    /\ last.op = "handleUpdates" /\ last.entered /\ last.ready
    /\ last.serviced = 1

\* The positions of a handleUpdates call past its quick check.
HandlePath == {"net_lock", "net_body", "handle_lock", "handle_check", "handle",
               "handle_done"}

\* C11: a handleUpdates call on a subsystem that is not initialized returns
\* at once: the step changes no state of the coordinator or the library,
\* takes no mutex, leaves the readiness answer and the service count of the
\* call untouched, and no task gets to the readiness check, the lock or the
\* service routine of handleUpdates while initialized is false.
C11_UninitializedHandleUpdatesIsNoOp ==
    [][/\ \A t \in Tasks :
            (handleUpdatesEnter(t) /\ ~initialized)
            => (/\ UNCHANGED <<coordVars, libVars, callVars, mutex, nMutex, held, pc>>
                /\ last' = [op |-> "handleUpdates", entered |-> FALSE,
                            ready |-> FALSE, serviced |-> 0])
       /\ ~initialized => \A t \in Tasks : pc'[t] \notin HandlePath]_vars

\* handleUpdates has returned from its quick check on a subsystem whose mutex
\* exists: an initialize call was rejected, or has not got to its body yet.
C11_Witness ==
    /\ ~initialized
    /\ last = [op |-> "handleUpdates", entered |-> FALSE, ready |-> FALSE, serviced |-> 0]
    /\ mutex # 0
    /\ calls >= 2

\* The tasks inside the service routine of the transfer library.
InService == {t \in Tasks : pc[t] = "handle"}

\* C12: at most one task is inside ArduinoOTA.handle() at any time, and no
\* task is in the body of initialize or of a setter while another task is
\* inside ArduinoOTA.handle().
C12_ServiceRoutineIsExclusive ==
    /\ Cardinality(InService) <= 1
    /\ \A t \in InService : \A u \in Tasks \ {t} : pc[u] \notin {"init_body", "set_body"}

\* A step of task t that reads or writes initialized, the network-check
\* predicate or a callback slot: the quick check and the double check of
\* handleUpdates, isInitialized, isNetworkReady, the body of a setter, the
\* body of initialize, and the dispatch of a lifecycle event.
AccessesFields(t) ==
    \/ handleUpdatesEnter(t)
    \/ handleUpdatesService(t)
    \/ isInitialized(t)
    \/ CheckNetwork(t)
    \/ \E kind \in Kinds, cb \in CallbackArgs : setCallback(t, kind, cb)
    \/ \E call \in InitializeCalls :
          initializeBody(t, call.hostname, call.password, call.port, call.networkCheckCb)
    \/ \E kind \in Kinds, error \in {"-"} \cup ErrorsBeforeStart \cup ErrorsAfterStart,
          taken \in BOOLEAN :
          otaEvent(t, kind, error, taken)

\* C13: every step that reads or writes initialized, the network-check
\* predicate or a callback slot is taken by a task that holds the mutex.
C13_FieldsAccessedOnlyUnderLock ==
    [][\A t \in Tasks : AccessesFields(t) => held[t] # 0]_vars

\* C14: whatever finite sequences of initialize (valid or invalid),
\* handleUpdates, isInitialized and setter calls the tasks make and however
\* they interleave, a task that is not inside a call holds no mutex (every
\* way out of every operation has released it), and every call that was
\* entered returns, unless the device reboots at the end of a completed
\* update, which ends every task.
C14_EveryCallReturns ==
    /\ [](\A t \in Tasks : pc[t] = "idle" => held[t] = 0)
    /\ \A t \in Tasks : (pc[t] # "idle") ~> (pc[t] = "idle" \/ restarted)

\* An initialize call waits for the mutex another task holds inside the
\* service routine.
C14_Witness ==
    \E t \in Tasks, u \in Tasks :
        /\ pc[t] = "init_lock" /\ pc[u] = "handle"
        /\ mutex # 0 /\ held[u] = mutex /\ ~CanLock

\* C17: in the example application the end event leaves the in-progress flag
\* false with the restart still to come, so the flag is clear in the state the
\* restart is triggered from; once the end event has been handled the only
\* step left is the restart, which changes nothing of the coordinator, the
\* library session or the calls made; and no step follows the restart.
C17_EndClearsFlagThenRestartIsTerminal ==
    [][/\ (EventStep /\ last'.kind = "end")
            => (~otaUpdateInProgress' /\ ~restarted' /\ \E t \in Tasks : ending'[t])
       /\ (restarted' /\ ~restarted) => ~otaUpdateInProgress
       /\ (\E t \in Tasks : ending[t])
            => (/\ restarted'
                /\ UNCHANGED <<coordVars, otaState, otaUpdateInProgress, sessions,
                               calls, pc, held, last>>)
       /\ ~restarted]_vars

\* The device has restarted after OTATask::onOTAEnd handled the end event of
\* a session in which the flag had been set.
C17_Witness ==
    /\ restarted
    /\ last = [op |-> "event", kind |-> "end", callee |-> TaskCb,
               found |-> TRUE, wrote |-> "false"]
    /\ ~otaUpdateInProgress

\* C18: after the error handler has handled an error event of any kind,
\* whether or not a start event preceded it, the in-progress flag is false,
\* the sensor task is not suspended, the device has not been restarted and
\* initialized is still true.
C18_ErrorLeavesDeviceOperational ==
    (last.op = "event" /\ last.kind = "error")
    => (/\ ~otaUpdateInProgress
        /\ ~suspended
        /\ ~restarted
        /\ initialized)

\* C19: every invocation of the progress handler in effect, the default hook
\* installed by initialize (OTAManager::handleOTAProgress) or the handler the
\* application installed through setProgressCallback
\* (OTATask::onOTAProgress), feeds the watchdog before it returns.
C19_ProgressHandlerFeedsWatchdog ==
    (last.op = "event" /\ last.kind = "progress" /\ last.callee \in {DefaultCb, TaskCb})
    => last.fed

\* C16: in each supervised task loop the time between two consecutive
\* watchdog feeds, the sleeps and the bounded mutex waits between them
\* counted, stays strictly below the timeout the task registered with, and
\* the sleep part of it is at most the loop interval divided by the number
\* of segments.
C16_FeedGapBelowTimeout ==
    wdtRegistered
    => (/\ gap < Timeout[wtask]
        /\ sleepGap <= Interval[wtask] \div Segments[wtask])

\* The suspended sensor task has waited the full 100 ms for the mutex and
\* slept one segment since its last feed.
C16_Witness ==
    /\ wtask = "sensor" /\ wdtRegistered /\ isSuspended
    /\ wpc = "delay_feed"
    /\ gap = MutexWaitMs + 200 /\ sleepGap = 200

\* C20: within one update session, in which the reported progress never
\* goes down, a progress handler (OTATask::onOTAProgress with its 10% steps,
\* OTAManager::handleOTAProgress with its 5% steps) emits a log line only when
\* the percentage has got to a later step than the one of its last line:
\* no step gets more than one line.
C20_OneLogLinePerStep == stepLines <= 1

\* A step in which the readiness check of task t's handleUpdates call returns.
ReadinessStep(t) == pc[t] = "net_body" /\ pc'[t] # "net_body"

\* C21: when the network check stored by the last successful initialize is
\* a user predicate, the readiness check of a handleUpdates call returns
\* what the predicate returned, whatever the wired and wireless probes would
\* find and however the firmware was built, and handleUpdates goes on to the
\* service routine exactly when the predicate returned true.
C21_PredicateOverridesDefaultProbe ==
    [][\A t \in Tasks :
         (ReadinessStep(t) /\ networkCheckCallback # 0)
         => (/\ net'.checked /\ net'.callback = networkCheckCallback
             /\ net'.answer = net'.predicate
             /\ (pc'[t] = "handle_lock") = net'.predicate
             /\ (pc'[t] = "idle") = ~net'.predicate)]_vars

\* A task is inside the service routine on the word of the predicate, both
\* links being down in a firmware built with both probes.
C21_Witness ==
    /\ net.checked /\ net.callback # 0 /\ net.predicate /\ net.answer
    /\ net.links = NoLinks
    /\ net.build = [ethDefined |-> TRUE, wifiEnabled |-> TRUE]
    /\ networkCheckCallback # 0
    /\ \E t \in Tasks : pc[t] = "handle"

\* C22: when no predicate is stored, the readiness check returns true
\* exactly when the wired link is up with a non-zero address, or wireless
\* is enabled in the build, associated, and has a non-zero address.
C22_DefaultProbeWiredThenWireless ==
    (net.checked /\ net.callback = 0)
    => (net.answer = (\/ net.links.ethLink /\ net.links.ethAddr
                      \/ /\ net.build.wifiEnabled
                         /\ net.links.wifiConnected /\ net.links.wifiAddr))

\* A step in which the service routine task t is inside fires an event.
Dispatches(t) ==
    \E kind \in Kinds, error \in {"-"} \cup ErrorsBeforeStart \cup ErrorsAfterStart,
       taken \in BOOLEAN :
       otaEvent(t, kind, error, taken)

\* The critical sections that write the callback slots.
SlotWriters == {"set_body", "init_body"}

\* C23: the mutex orders the writes of the callback slots (the body of a
\* setter, the body of initialize) and the handleUpdates calls: an event is
\* dispatched to the callback its slot holds, which is the one the last
\* completed setter or initialize put there, and while a task is inside the
\* guarded block of handleUpdates no other task is inside a critical section
\* that writes the slots, so that every event of the call finds a slot
\* either before or after a write, never during one.
C23_SettersAndHandleUpdatesOrderedByLock ==
    [][\A t \in Tasks :
         Dispatches(t)
         => (/\ last'.callee = callbacks[last'.kind]
             /\ \A u \in Tasks \ {t} : pc[u] \notin SlotWriters)]_vars

\* The positions of an initialize call.
InitPath == {"init_create", "init_lock", "init_body"}

\* An update is in progress: the session of the library, the flag of the
\* example application.
UpdateInProgress == otaState = "updating" \/ otaUpdateInProgress

\* C25: an initialize call made while an update is in progress, by another
\* task or by a lifecycle callback running inside handleUpdates, returns
\* (unless the device restarts); no mutex is owned by two tasks; and the call
\* leaves the in-progress flag as it was.
C25_InitializeDuringUpdateReturns ==
    /\ [](\A t \in Tasks : \A u \in Tasks \ {t} :
            held[t] # 0 => (held[u] # held[t] /\ outer[u] # held[t]))
    /\ [][\A t \in Tasks :
            (pc[t] \in InitPath /\ pc'[t] # pc[t])
            => otaUpdateInProgress' = otaUpdateInProgress]_vars
    /\ \A t \in Tasks :
          (pc[t] \in InitPath /\ (nested[t] \/ UpdateInProgress))
          ~> (pc[t] \notin InitPath \/ restarted)

\* C26: no task holds the coordinator's mutex while it holds or waits for
\* the OTA status mutex or the sensor data mutex: a lifecycle handler that
\* takes one of them (the start handler with its SensorTask::suspend
\* included) is not run by a task that holds the coordinator's mutex.
C26_NoOtherLockUnderCoordinatorLock ==
    [][\A t \in Tasks :
         (Dispatches(t) /\ held[t] # 0)
         => LocksTaken(last'.kind, last'.callee) = {}]_vars

\* C27: however the first initialize calls of several tasks interleave, one
\* mutex is created and no more, and at most one task at a time is inside
\* the critical section of initialize.
C27_OneMutexAndOneTaskInInitialize ==
    /\ nMutex <= 1
    /\ Cardinality({t \in Tasks : pc[t] = "init_body"}) <= 1

\* C28: an initialize call with valid parameters leaves the default hook in
\* each of the four callback slots, whatever the setters had installed
\* before; one with invalid parameters leaves the four slots as they were.
C28_InitializeResetsSlotsToDefaultHooks ==
    [][\A t \in Tasks :
         Leaves(t, "init_body")
         => IF ParamsValid(last'.hostname, last'.port)
               THEN callbacks' = [k \in Kinds |-> DefaultCb]
               ELSE callbacks' = callbacks]_vars

\* A valid initialize has returned on a subsystem in whose error slot a
\* setter had installed a handler: the slot holds the default hook again.
C28_Witness ==
    /\ last.op = "initialize" /\ last.ok /\ last.again
    /\ last.slots["error"] = TaskCb
    /\ callbacks = [k \in Kinds |-> DefaultCb]

\* A step in which some task's service routine fires an event.
SomeDispatch == \E t \in Tasks : Dispatches(t)

\* C29: the coordinator goes Uninitialized -> Initialized(idle) ->
\* Initialized(updating) -> restart or Initialized(idle).  No lifecycle
\* event fires while initialized is false; an update is in progress only
\* while initialized is true, and the in-progress flag of the task agrees
\* with the session of the library; the step that sets initialized leaves the
\* coordinator idle; updating is entered only by a start event and left only
\* by an end event, after which the only step is the restart, or by an error
\* event, which leaves the device running; and nothing follows the restart.
C29_LifecycleStateMachine ==
    /\ [](UpdateInProgress => initialized)
    /\ [](otaUpdateInProgress = (otaState = "updating"))
    /\ [][/\ SomeDispatch => initialized
          /\ (initialized' /\ ~initialized) => ~UpdateInProgress'
          /\ (UpdateInProgress' /\ ~UpdateInProgress)
               => (SomeDispatch /\ last'.kind = "start")
          /\ (UpdateInProgress /\ ~UpdateInProgress')
               => (/\ SomeDispatch /\ last'.kind \in {"end", "error"}
                   /\ (last'.kind = "end") = (\E t \in Tasks : ending'[t])
                   /\ ~restarted')
          /\ (restarted' /\ ~restarted)
               => ((\E t \in Tasks : ending[t]) /\ ~UpdateInProgress')
          /\ (\E t \in Tasks : ending[t]) => restarted'
          /\ ~restarted]_vars

\* The device has restarted from the updating state, after an earlier
\* session had gone back to idle by an error event.
C29_Witness ==
    /\ restarted /\ initialized /\ ~UpdateInProgress
    /\ errorAt > 0 /\ calls > errorAt
    /\ last.op = "event" /\ last.kind = "end" /\ last.found

\* The sensor loop does its flag check: it leaves the check for the read or
\* for the delay.
SensorChecks == wtask = "sensor" /\ wpc = "check" /\ wpc' # "check"

\* C30: sensor sampling is paused for the duration of an update.  Every flag
\* check the sensor loop does while an update is in progress (onOTAStart has
\* returned, onOTAError and onOTAEnd have not run) is followed by the delay
\* and not by readSensors(), whatever the outcome of the bounded waits for
\* dataMutex in SensorTask::suspend() and in the flag check.
C30_NoSensorReadDuringUpdate ==
    [][(SensorChecks /\ otaUpdateInProgress) => wpc' # "read"]_vars

\* C31: the example system is deadlock-free.  No task holds the OTA status
\* lock or the sensor data lock while it waits for another lock, so the
\* three locks are taken in the order coordinator lock first; and every
\* task that waits for a lock gets it or gives up the wait and goes on
\* (or the device restarts after a successful update).
C31_ExampleDeadlockFree ==
    /\ [](\A t \in ExampleTasks :
            Waiting(t) => \A l \in {"otaStatusMutex", "dataMutex"} : owner[l] # t)
    /\ \A t \in ExampleTasks :
          Waiting(t) ~> (~Waiting(t) \/ round[t] = "halted")

\* The OTA task, holding the coordinator lock inside ArduinoOTA.handle(),
\* waits in SensorTask::suspend() for the data lock, which the sensor task
\* holds.
C31_Witness ==
    /\ round["ota"] = "start" /\ Waiting("ota") /\ OpAt("ota").lock = "dataMutex"
    /\ owner["mutex"] = "ota" /\ owner["dataMutex"] = "sensor"

\* C32: when the wait for the Ethernet connection in setup() timed out, so
\* that the OTA task was not started there, and the link has come up later
\* and the connected callback has fired, the connection check of loop()
\* eventually calls OTATask::init (and then OTATask::start), unless the link
\* goes down again.
C32_ReconnectStartsOtaTask ==
    (waited = "timeout" /\ mpc = "loop" /\ ~taskHandle /\ linkUp /\ notified)
        ~> (script[MainTask] # 0 \/ taskHandle \/ ~linkUp)

\* A step that is a whole call of OTATask::start: the one that follows a
\* successful OTATask::init, or one made on its own.
StartCalled ==
    \/ script[MainTask] = 7 /\ script'[MainTask] = 0
    \/ calls' = calls + 1 /\ script'[MainTask] = 0

\* C33: over any sequence of OTATask::init and OTATask::start calls at most
\* one OTA task is ever created.  A start call made after a successful start
\* returns true and creates nothing; a start call made before any successful
\* start (the first one, or one after a failed creation) either creates the
\* one task and returns true or creates nothing and returns false.
C33_AtMostOneOtaTask ==
    /\ [](otaTasks <= 1 /\ (otaTasks = 1) = started /\ (started => taskHandle))
    /\ [][StartCalled =>
            IF started
               THEN /\ otaTasks' = otaTasks /\ started' /\ StartReturns[startResult']
               ELSE \/ otaTasks' = 1 /\ started' /\ taskHandle' /\ StartReturns[startResult']
                    \/ otaTasks' = 0 /\ ~started' /\ ~StartReturns[startResult']]_vars

\* OTATask::start has been called after the OTA task had been created, and
\* has left by its early return: there is one task.
C33_Witness == startResult = "already started" /\ otaTasks = 1 /\ taskHandle

\* C34: the status logs of handleUpdates are throttled with two independent
\* windows.  A line of a kind is written no sooner than the interval of that
\* kind after the line of that kind before it, and writing a line of one
\* kind leaves the time kept for the other kind alone, whichever tasks call
\* handleUpdates and however their calls interleave.
C34_StatusLogsThrottled ==
    [][/\ \A k \in LogKinds :
            (nLogs'[k] # nLogs[k] /\ logAt[k] # -1)
                => clock - logAt[k] >= LogInterval[k]
       /\ nLogs'["waiting"] # nLogs["waiting"] => lastErrorLog' = lastErrorLog
       /\ nLogs'["error"] # nLogs["error"] => lastLog' = lastLog]_vars

\* A step that is a call of the progress handler followed, and whether the
\* call wrote a log line.
ProgressLogged == loggedStep' # loggedStep \/ stepLines' # stepLines
ProgressCalled == progress' > progress \/ (ProgressLogged /\ loggedStep' # -1)

\* What the static of a handler holds when the handler has seen nothing but
\* the calls of this session: its initializer, or the step of the last line
\* of the session.
FreshStatic(h) ==
    IF loggedStep = -1 THEN (IF h = TaskCb THEN 0 ELSE -5) ELSE loggedStep * StepSize[h]

\* C35: the progress log lines of a session do not depend on an earlier
\* session.  In every session, also one that follows a session aborted by an
\* error, a call of the progress handler writes a line exactly when the
\* handler would write it had it seen only the calls of this session, as in
\* the first session after boot.
C35_ProgressLogsIndependentOfEarlierSession ==
    [][ProgressCalled =>
         LET percent == Percent(progress', FirmwareSize) IN
           ProgressLogged =
             IF handler = TaskCb THEN onOTAProgressLogs(percent, FreshStatic(TaskCb))
             ELSE handleOTAProgressLogs(percent, FreshStatic(DefaultCb))]_vars

C38_ThrottleCorrectAcrossWrap ==
    [][/\ (tpc[OtaTask] \in {"none", "idle"} /\ tpc'[OtaTask] = "locked"
            /\ logAt["waiting"] # -1)
          => ((nLogs'["waiting"] = nLogs["waiting"] + 1)
                = (clock - logAt["waiting"] >= OTA_LOG_INTERVAL_MS))
       /\ (tpc[OtaTask] \in {"none", "idle"}
            /\ tpc'[OtaTask] \in {"else_log", "else_skip"}
            /\ logAt["error"] # -1)
          => ((tpc'[OtaTask] = "else_log")
                = (clock - logAt["error"] >= OTA_ERROR_LOG_INTERVAL_MS))
       /\ (tpc[OtaTask] = "else_log" /\ tpc'[OtaTask] # "else_log")
          => (nLogs'["error"] = nLogs["error"] + 1 /\ logAt'["error"] = clock)]_vars

\* millis() has wrapped since the last line of each kind, and a line of each
\* kind has been written after the wrap, at the time its interval had passed.
C38_Witness ==
    /\ epoch # Zero32 /\ clock >= WrapIn
    /\ nLogs["waiting"] = 1 /\ logAt["waiting"] = OTA_LOG_INTERVAL_MS
    /\ lastLog[1] < epoch[1]
    /\ nLogs["error"] >= 1 /\ lastErrorLog[1] < epoch[1]

====
